---- MODULE Spec2Model ----
(***************************************************************************)
(* A model of tlm_adjoint/adjoint.py: the adjoint right-hand-side          *)
(* hierarchy, the TransposeComputationalGraph and the AdjointCache.        *)
(*                                                                         *)
(* Python dictionaries are functions with a finite domain, tuples and      *)
(* lists are sequences.  Positions inside a block, dependency slots and    *)
(* output slots are numbered from 1 (Python numbers them from 0); block    *)
(* keys are the integers the tape uses.                                    *)
(***************************************************************************)
EXTENDS Integers, Sequences, FiniteSets, TLC

\* ------------------------------------------------------------- bounds
\* Forward variables are identified by their id, 1..NVars.
NVars == 2
\* The largest number of equations on a tape.
MaxEqs == 3
\* The largest number of blocks on a tape.
MaxBlocks == 2

Vars == 1..NVars

\* ------------------------------------------------------------- helpers
None == "None"

EmptyDict == [x \in {} |-> None]

Range(s) == {s[a] : a \in DOMAIN s}

Put(d, key, value) == [x \in DOMAIN d \cup {key} |-> IF x = key THEN value ELSE d[x]]

Remove(d, key) == [x \in DOMAIN d \ {key} |-> d[x]]

\* The last position at which x occurs in the sequence s.
LastIndex(s, x) == CHOOSE a \in DOMAIN s : s[a] = x /\ \A b \in DOMAIN s : s[b] = x => b <= a

\* sorted(S) for a finite set of integers.
RECURSIVE sorted(_)
sorted(S) ==
  IF S = {} THEN <<>>
  ELSE LET least == CHOOSE x \in S : \A y \in S : x <= y
       IN  <<least>> \o sorted(S \ {least})

\* ------------------------------------------------------------- the tape
\* An equation, as far as adjoint.py reads it: eq.X(), eq.dependencies(),
\* eq.adjoint_initial_condition_dependencies(), eq.adj_X_type(m), its class,
\* eq.id and the attributes _tlm_adjoint__tlm_root_id, _tlm_adjoint__tlm_key.
Equation(X, deps, adj_ic, adj_X_type, kind, id, root, key) ==
  [X |-> X, deps |-> deps, adj_ic |-> adj_ic, adj_X_type |-> adj_X_type,
   kind |-> kind, id |-> id, tlm_root_id |-> root, tlm_key |-> key]

\* A functional: a variable with its id and, for the tangent-linear of a
\* functional, the attribute _tlm_adjoint__tlm_root_id (its own id otherwise).
Functional(id, root) == [id |-> id, tlm_root_id |-> root]

var_id(J) == J.id

isInstruction(eq) == eq.kind = "Instruction"

isMarker(eq) == eq.kind \in {"ControlsMarker", "FunctionalMarker"}

\* blocks_n: range(len(blocks)) for a sequence, sorted(blocks.keys()) for a mapping.
blocks_n_of(blocks) == sorted(DOMAIN blocks)

\* The positions (n, i) of the tape in tape order.
RECURSIVE PositionsFrom(_, _)
PositionsFrom(blocks, ns) ==
  IF ns = <<>> THEN <<>>
  ELSE [i \in 1..Len(blocks[Head(ns)]) |-> <<Head(ns), i>>] \o PositionsFrom(blocks, Tail(ns))

Positions(blocks) == PositionsFrom(blocks, blocks_n_of(blocks))

Reverse(s) == [a \in 1..Len(s) |-> s[Len(s) + 1 - a]]

EqAt(blocks, pos) == blocks[pos[1]][pos[2]]

SpaceTypes == {"primal", "conjugate", "dual", "conjugate_dual"}

\* The space type of the forward variable x: odd ids are primal variables, even
\* ids are dual ones.
space_type_of(x) == IF x % 2 = 1 THEN "primal" ELSE "dual"

conjugate_space_type(t) ==
  CASE t = "primal" -> "conjugate"
    [] t = "conjugate" -> "primal"
    [] t = "dual" -> "conjugate_dual"
    [] t = "conjugate_dual" -> "dual"

dual_space_type(t) ==
  CASE t = "primal" -> "dual"
    [] t = "dual" -> "primal"
    [] t = "conjugate" -> "conjugate_dual"
    [] t = "conjugate_dual" -> "conjugate"

\* var_space_type(x, rel_space_type=...): the space type of x relative to
\* rel_space_type.
var_space_type(x, rel_space_type) ==
  CASE rel_space_type = "primal" -> space_type_of(x)
    [] rel_space_type = "conjugate" -> conjugate_space_type(space_type_of(x))
    [] rel_space_type = "dual" -> dual_space_type(space_type_of(x))
    [] rel_space_type = "conjugate_dual" -> conjugate_space_type(dual_space_type(space_type_of(x)))

\* ------------------------------------------------- TransposeComputationalGraph
\* Lines 286-300, one equation: the outputs are recorded as last producers, then
\* each dependency with a recorded, strictly earlier producer gets an edge.
RecordFirstProducers(last_eq, eq, n, i) ==
  [x \in DOMAIN last_eq \cup Range(eq.X) |->
     IF x \in DOMAIN last_eq THEN last_eq[x] ELSE <<n, i, LastIndex(eq.X, x)>>]

RecordProducers(last_eq, eq, n, i) ==
  [x \in DOMAIN last_eq \cup Range(eq.X) |->
     IF x \in Range(eq.X) THEN <<n, i, LastIndex(eq.X, x)>> ELSE last_eq[x]]

EdgeConditionAlways(p, k, n, i) == TRUE

EdgeCondition(p, k, n, i) == p < n \/ k < i

TransposeEdgesOf(last_eq, eq, n, i) ==
  LET slots == {j \in DOMAIN eq.deps :
                  /\ eq.deps[j] \in DOMAIN last_eq
                  /\ EdgeCondition(last_eq[eq.deps[j]][1], last_eq[eq.deps[j]][2], n, i)}
  IN  [key \in {<<n, i, j>> : j \in slots} |-> last_eq[eq.deps[key[3]]]]

RECURSIVE TransposePass(_, _, _, _)
TransposePass(blocks, ps, last_eq, transpose_deps) ==
  IF ps = <<>> THEN transpose_deps
  ELSE LET n == Head(ps)[1]
           i == Head(ps)[2]
           eq == blocks[n][i]
           last_eq1 == RecordProducers(last_eq, eq, n, i)
       IN  TransposePass(blocks, Tail(ps), last_eq1,
                         TransposeEdgesOf(last_eq1, eq, n, i) @@ transpose_deps)

transpose_deps_of(blocks) == TransposePass(blocks, Positions(blocks), EmptyDict, EmptyDict)

\* Lines 305-324, one equation (p, k) of the reverse traversal, outputs m..: an
\* output that is an adjoint initial condition dependency of (p, k) and was
\* recorded by the next later producer with the same adjoint type gets an edge
\* from that producer's own slot; then (p, k) is recorded as the producer.
\* dep_map[x_id] raises KeyError for an output that is no dependency.
dep_map_of(eq) == [x \in Range(eq.deps) |-> LastIndex(eq.deps, x)]

\* AdjIcOutputs with dep_map.get(x_id, 0) for dep_map[x_id]: no KeyError.
RECURSIVE AdjIcOutputsNoLookupError(_, _, _, _, _)
AdjIcOutputsNoLookupError(eq, p, k, m, st) ==
  IF m > Len(eq.X) \/ st.err # "ok" THEN st
  ELSE LET x == eq.X[m]
           adj_x_type == var_space_type(x, eq.adj_X_type[m])
           hit == /\ x \in eq.adj_ic
                  /\ x \in DOMAIN st.last_eq
                  /\ st.last_eq[x][1] = adj_x_type
           nij == st.last_eq[x][2]
           ics1 == IF hit THEN Put(st.ics, nij, <<p, k, m>>) ELSE st.ics
           j == IF x \in Range(eq.deps) THEN dep_map_of(eq)[x] ELSE 0
       IN  AdjIcOutputsNoLookupError(eq, p, k, m + 1,
             [err |-> "ok", ics |-> ics1,
              last_eq |-> Put(st.last_eq, x, <<adj_x_type, <<p, k, j>>>>)])

\* AdjIcOutputs without the comparison of the adjoint space types.
RECURSIVE AdjIcOutputsAnyType(_, _, _, _, _)
AdjIcOutputsAnyType(eq, p, k, m, st) ==
  IF m > Len(eq.X) \/ st.err # "ok" THEN st
  ELSE LET x == eq.X[m]
           adj_x_type == var_space_type(x, eq.adj_X_type[m])
           hit == x \in eq.adj_ic /\ x \in DOMAIN st.last_eq
           nij == st.last_eq[x][2]
           ics1 == IF hit THEN Put(st.ics, nij, <<p, k, m>>) ELSE st.ics
       IN  IF x \notin Range(eq.deps)
           THEN [st EXCEPT !.err = "KeyError", !.ics = ics1]
           ELSE AdjIcOutputsAnyType(eq, p, k, m + 1,
                  [err |-> "ok", ics |-> ics1,
                   last_eq |-> Put(st.last_eq, x,
                                   <<adj_x_type, <<p, k, dep_map_of(eq)[x]>>>>)])

RECURSIVE AdjIcOutputs(_, _, _, _, _)
AdjIcOutputs(eq, p, k, m, st) ==
  IF m > Len(eq.X) \/ st.err # "ok" THEN st
  ELSE LET x == eq.X[m]
           adj_x_type == var_space_type(x, eq.adj_X_type[m])
           hit == /\ x \in eq.adj_ic
                  /\ x \in DOMAIN st.last_eq
                  /\ st.last_eq[x][1] = adj_x_type
           nij == st.last_eq[x][2]
           bad == hit /\ ~(nij[1] > p \/ (nij[1] = p /\ nij[2] > k))
           ics1 == IF hit /\ ~bad THEN Put(st.ics, nij, <<p, k, m>>) ELSE st.ics
       IN  IF bad THEN [st EXCEPT !.err = "AssertionError"]
           ELSE IF x \notin Range(eq.deps)
                THEN [st EXCEPT !.err = "KeyError", !.ics = ics1]
                ELSE AdjIcOutputs(eq, p, k, m + 1,
                       [err |-> "ok", ics |-> ics1,
                        last_eq |-> Put(st.last_eq, x,
                                        <<adj_x_type, <<p, k, dep_map_of(eq)[x]>>>>)])

RECURSIVE AdjIcPass(_, _, _)
AdjIcPass(blocks, ps, st) ==
  IF ps = <<>> \/ st.err # "ok" THEN st
  ELSE AdjIcPass(blocks, Tail(ps),
                 AdjIcOutputs(EqAt(blocks, Head(ps)), Head(ps)[1], Head(ps)[2], 1, st))

\* transpose_deps_ics after the reverse traversal, with the error it raised.
transpose_deps_ics_of(blocks, transpose_deps) ==
  AdjIcPass(blocks, Reverse(Positions(blocks)),
            [err |-> "ok", ics |-> transpose_deps, last_eq |-> EmptyDict])

ForwardActiveNoEdges(eq, n, i, ics, st) ==
  LET first == st.active_M # {} /\ Range(eq.X) \cap st.active_M # {}
  IN  [active_M |-> IF first THEN st.active_M \ Range(eq.X) ELSE st.active_M,
       on |-> IF isInstruction(eq) \/ first THEN st.on \cup {<<n, i>>} ELSE st.on]

ForwardActiveNoConsume(eq, n, i, ics, st) ==
  LET first == st.active_M # {} /\ Range(eq.X) \cap st.active_M # {}
      byEdge == \E j \in DOMAIN eq.deps :
                  /\ <<n, i, j>> \in DOMAIN ics
                  /\ <<ics[<<n, i, j>>][1], ics[<<n, i, j>>][2]>> \in st.on
  IN  [active_M |-> st.active_M,
       on |-> IF isInstruction(eq) \/ first \/ byEdge
              THEN st.on \cup {<<n, i>>} ELSE st.on]

\* Lines 326-346, the forward traversal: st.active_M is the shrinking set of
\* controls still to be produced, st.on the set of forward-active positions.
ForwardActive(eq, n, i, ics, st) ==
  LET first == st.active_M # {} /\ Range(eq.X) \cap st.active_M # {}
      byEdge == \E j \in DOMAIN eq.deps :
                  /\ <<n, i, j>> \in DOMAIN ics
                  /\ <<ics[<<n, i, j>>][1], ics[<<n, i, j>>][2]>> \in st.on
  IN  [active_M |-> IF first THEN st.active_M \ Range(eq.X) ELSE st.active_M,
       on |-> IF isInstruction(eq) \/ first \/ byEdge
              THEN st.on \cup {<<n, i>>} ELSE st.on]

RECURSIVE ForwardPass(_, _, _, _)
ForwardPass(blocks, ps, ics, st) ==
  IF ps = <<>> THEN st.on
  ELSE ForwardPass(blocks, Tail(ps), ics,
                   ForwardActive(EqAt(blocks, Head(ps)), Head(ps)[1], Head(ps)[2], ics, st))

active_forward_always_pruned(M, blocks, ics, prune_forward) ==
  ForwardPass(blocks, Positions(blocks), ics, [active_M |-> M, on |-> {}])

\* active_forward as the set of positions whose flag is True.
active_forward_of(M, blocks, ics, prune_forward) ==
  IF prune_forward
  THEN ForwardPass(blocks, Positions(blocks), ics, [active_M |-> M, on |-> {}])
  ELSE Range(Positions(blocks))

AdjointActiveEveryProducer(eq, n, i, J_id, transpose_deps, st) ==
  LET found == st.active_J /\ J_id \in Range(eq.X)
      adj1 == IF found THEN st.adj \cup {<<n, i>>} ELSE st.adj
      producers == {<<transpose_deps[<<n, i, j>>][1], transpose_deps[<<n, i, j>>][2]>> :
                      j \in {a \in DOMAIN eq.deps : <<n, i, a>> \in DOMAIN transpose_deps}}
  IN  [active_J |-> st.active_J,
       adj |-> IF <<n, i>> \in adj1 THEN adj1 \cup producers ELSE adj1,
       off |-> IF <<n, i>> \notin adj1 /\ ~isInstruction(eq)
               THEN st.off \cup {<<n, i>>} ELSE st.off]

AdjointActiveNoInstruction(eq, n, i, J_id, transpose_deps, st) ==
  LET found == st.active_J /\ J_id \in Range(eq.X)
      adj1 == IF found THEN st.adj \cup {<<n, i>>} ELSE st.adj
      producers == {<<transpose_deps[<<n, i, j>>][1], transpose_deps[<<n, i, j>>][2]>> :
                      j \in {a \in DOMAIN eq.deps : <<n, i, a>> \in DOMAIN transpose_deps}}
  IN  [active_J |-> st.active_J /\ ~found,
       adj |-> IF <<n, i>> \in adj1 THEN adj1 \cup producers ELSE adj1,
       off |-> IF <<n, i>> \notin adj1 THEN st.off \cup {<<n, i>>} ELSE st.off]

AdjointActiveNoEdges(eq, n, i, J_id, transpose_deps, st) ==
  LET found == st.active_J /\ J_id \in Range(eq.X)
      adj1 == IF found THEN st.adj \cup {<<n, i>>} ELSE st.adj
  IN  [active_J |-> st.active_J /\ ~found,
       adj |-> adj1,
       off |-> IF <<n, i>> \notin adj1 /\ ~isInstruction(eq)
               THEN st.off \cup {<<n, i>>} ELSE st.off]

\* Lines 355-376 for one functional J, the reverse traversal: st.active_J says
\* that the producer of J is still looked for, st.adj is active_adjoint and
\* st.off the positions whose active flag is set to False.
AdjointActive(eq, n, i, J_id, transpose_deps, st) ==
  LET found == st.active_J /\ J_id \in Range(eq.X)
      adj1 == IF found THEN st.adj \cup {<<n, i>>} ELSE st.adj
      producers == {<<transpose_deps[<<n, i, j>>][1], transpose_deps[<<n, i, j>>][2]>> :
                      j \in {a \in DOMAIN eq.deps : <<n, i, a>> \in DOMAIN transpose_deps}}
  IN  [active_J |-> st.active_J /\ ~found,
       adj |-> IF <<n, i>> \in adj1 THEN adj1 \cup producers ELSE adj1,
       off |-> IF <<n, i>> \notin adj1 /\ ~isInstruction(eq)
               THEN st.off \cup {<<n, i>>} ELSE st.off]

RECURSIVE AdjointPass(_, _, _, _, _)
AdjointPass(blocks, ps, J_id, transpose_deps, st) ==
  IF ps = <<>> THEN st
  ELSE AdjointPass(blocks, Tail(ps), J_id, transpose_deps,
                   AdjointActive(EqAt(blocks, Head(ps)), Head(ps)[1], Head(ps)[2],
                                 J_id, transpose_deps, st))

\* active[J_i] as the set of positions whose flag is True.
active_of(J_id, blocks, transpose_deps, active_forward, prune_adjoint) ==
  IF prune_adjoint
  THEN active_forward \ AdjointPass(blocks, Reverse(Positions(blocks)), J_id, transpose_deps,
                                    [active_J |-> TRUE, adj |-> {}, off |-> {}]).off
  ELSE active_forward

\* Lines 382-402 for one functional, one equation (n, i), outputs m..: st.last_eq
\* maps a variable to the latest producer that declared it an adjoint initial
\* condition dependency, st.stored is stored_adj_ics[J_i], st.ics adj_ics[J_i].
RECURSIVE StoredOutputs(_, _, _, _, _)
StoredOutputs(eq, n, i, m, st) ==
  IF m > Len(eq.X) THEN st
  ELSE LET x == eq.X[m]
           adj_x_type == var_space_type(x, eq.adj_X_type[m])
           hit == x \in DOMAIN st.last_eq /\ st.last_eq[x][1] = adj_x_type
           stored1 == IF hit THEN Put(st.stored, <<n, i, m>>, st.last_eq[x][2]) ELSE st.stored
       IN  StoredOutputs(eq, n, i, m + 1,
             IF x \in eq.adj_ic
             THEN [stored |-> stored1,
                   ics |-> Put(st.ics, x, <<n, i>>),
                   last_eq |-> Put(st.last_eq, x, <<adj_x_type, <<n, i>>>>)]
             ELSE [stored |-> stored1,
                   ics |-> Remove(st.ics, x),
                   last_eq |-> Remove(st.last_eq, x)])

RECURSIVE StoredPass(_, _, _)
StoredPass(blocks, ps, st) ==
  IF ps = <<>> THEN st
  ELSE StoredPass(blocks, Tail(ps),
                  StoredOutputs(EqAt(blocks, Head(ps)), Head(ps)[1], Head(ps)[2], 1, st))

stored_adj_ics_of(blocks) ==
  StoredPass(blocks, Positions(blocks),
             [stored |-> EmptyDict, ics |-> EmptyDict, last_eq |-> EmptyDict])

\* TransposeComputationalGraph.__init__: the object it builds, or the error it
\* raises.  Js is the sequence of the functionals, M the set of the controls'
\* ids.
NoGraph == [err |-> "none"]

TransposeComputationalGraph(Js, M, blocks, prune_forward, prune_adjoint) ==
  LET transpose_deps == transpose_deps_of(blocks)
      icsPass == IF prune_forward THEN transpose_deps_ics_of(blocks, transpose_deps)
                 ELSE [err |-> "ok", ics |-> transpose_deps, last_eq |-> EmptyDict]
      active_forward == active_forward_of(M, blocks, icsPass.ics, prune_forward)
      active == [J_i \in DOMAIN Js |->
                   active_of(var_id(Js[J_i]), blocks, transpose_deps, active_forward, prune_adjoint)]
      stored == stored_adj_ics_of(blocks)
  IN  IF icsPass.err # "ok" THEN [err |-> icsPass.err]
      ELSE [err |-> "ok",
            transpose_deps |-> transpose_deps,
            active |-> active,
            solved |-> active,
            stored_adj_ics |-> [J_i \in DOMAIN Js |-> stored.stored],
            adj_ics |-> [J_i \in DOMAIN Js |-> stored.ics]]

is_active(g, J_i, n, i) == <<n, i>> \in g.active[J_i]

any_is_active(g, n, i) == \E J_i \in DOMAIN g.active : <<n, i>> \in g.active[J_i]

is_solved(g, J_i, n, i) == <<n, i>> \in g.solved[J_i]

set_not_solved_toggle(g, J_i, n, i) ==
  [g EXCEPT !.solved[J_i] = IF <<n, i>> \in @ THEN @ \ {<<n, i>>} ELSE @ \cup {<<n, i>>}]

set_not_solved(g, J_i, n, i) == [g EXCEPT !.solved[J_i] = @ \ {<<n, i>>}]

\* TransposeComputationalGraph.__contains__ and __getitem__, for a key (n, i, j).
TransposeComputationalGraph_contains(g, key) == key \in DOMAIN g.transpose_deps

TransposeComputationalGraph_getitem(g, key) == g.transpose_deps[key]

\* has_adj_ic without the test of the solved flag.
has_adj_ic_recorded(g, J_i, x) == x \in DOMAIN g.adj_ics[J_i]

\* has_adj_ic(J_i, x), x a variable id.
has_adj_ic(g, J_i, x) ==
  IF x \in DOMAIN g.adj_ics[J_i]
  THEN LET n == g.adj_ics[J_i][x][1]
           i == g.adj_ics[J_i][x][2]
       IN  is_solved(g, J_i, n, i)
  ELSE FALSE

\* is_stored_adj_ic without the test of the solved flag.
is_stored_adj_ic_recorded(g, J_i, n, i, m) == <<n, i, m>> \in DOMAIN g.stored_adj_ics[J_i]

\* is_stored_adj_ic(J_i, n, i, m)
is_stored_adj_ic(g, J_i, n, i, m) ==
  IF <<n, i, m>> \notin DOMAIN g.stored_adj_ics[J_i] THEN FALSE
  ELSE LET p == g.stored_adj_ics[J_i][<<n, i, m>>][1]
           k == g.stored_adj_ics[J_i][<<n, i, m>>][2]
       IN  is_solved(g, J_i, p, k)

\* adj_Bs with every slot that has a transpose edge, solved or not.
adj_Bs_every_edge(g, J_i, n, i, eq, B) ==
  LET js == {j \in DOMAIN eq.deps : TransposeComputationalGraph_contains(g, <<n, i, j>>)}
  IN  [j \in js |->
         LET pkm == TransposeComputationalGraph_getitem(g, <<n, i, j>>)
         IN  B[pkm[1]][pkm[2]][pkm[3]]]

\* adj_Bs(J_i, n, i, eq, B): dep_Bs, a dict from dependency slots to the
\* right-hand sides B[p][k][m].
adj_Bs(g, J_i, n, i, eq, B) ==
  LET js == {j \in DOMAIN eq.deps :
               /\ TransposeComputationalGraph_contains(g, <<n, i, j>>)
               /\ LET pkm == TransposeComputationalGraph_getitem(g, <<n, i, j>>)
                  IN  is_solved(g, J_i, pkm[1], pkm[2])}
  IN  [j \in js |->
         LET pkm == TransposeComputationalGraph_getitem(g, <<n, i, j>>)
         IN  B[pkm[1]][pkm[2]][pkm[3]]]

\* ------------------------------------------------------------- AdjointCache
\* cache_degree=None.
NoDegree == -1

\* The derivative-chain keys are tuples of direction ids; Python compares them
\* lexicographically, a proper prefix first.
RECURSIVE KeyLess(_, _)
KeyLess(a, b) ==
  IF b = <<>> THEN FALSE
  ELSE IF a = <<>> THEN TRUE
  ELSE IF Head(a) # Head(b) THEN Head(a) < Head(b)
  ELSE KeyLess(Tail(a), Tail(b))

PairLess(p, q) == p[1] < q[1] \/ (p[1] = q[1] /\ KeyLess(p[2], q[2]))

\* sorted(...) of a sequence of (J_i, adj_tlm_key) pairs.
RECURSIVE InsertPair(_, _)
InsertPair(s, p) ==
  IF s = <<>> THEN <<p>>
  ELSE IF PairLess(p, Head(s)) THEN <<p>> \o s
  ELSE <<Head(s)>> \o InsertPair(Tail(s), p)

RECURSIVE SortPairs(_)
SortPairs(s) == IF s = <<>> THEN <<>> ELSE InsertPair(SortPairs(Tail(s)), Head(s))

\* The subsequence of key at the indices in S.
SubKey(key, S) == LET idx == sorted(S) IN [a \in DOMAIN idx |-> key[idx[a]]]

RECURSIVE SetToSeq(_)
SetToSeq(S) ==
  IF S = {} THEN <<>>
  ELSE LET e == CHOOSE x \in S : TRUE IN <<e>> \o SetToSeq(S \ {e})

\* The ways of splitting the chain key of a functional's equation into the part
\* a tangent-linear equation carries and the part left to the adjoint, the
\* adjoint part having k entries.
KeySplits(key, k) ==
  SetToSeq({<<SubKey(key, S), SubKey(key, DOMAIN key \ S)>> :
              S \in {T \in SUBSET DOMAIN key : Cardinality(T) = Len(key) - k}})

RECURSIVE SplitsUpTo(_, _, _)
SplitsUpTo(key, k, limit) ==
  IF k >= limit THEN <<>> ELSE KeySplits(key, k) \o SplitsUpTo(key, k + 1, limit)

\* The entries (tlm_key, J_i, adj_tlm_key) one functional adds to tlm_adj.
FunctionalEntries(J_i, key, max_adjoint_degree) ==
  LET limit == IF max_adjoint_degree = NoDegree \/ max_adjoint_degree > Len(key) + 1
               THEN Len(key) + 1 ELSE max_adjoint_degree
      splits == SplitsUpTo(key, 0, limit)
  IN  [a \in DOMAIN splits |-> <<splits[a][1], J_i, splits[a][2]>>]

RECURSIVE EntriesOf(_, _, _)
EntriesOf(Jseq, key, max_adjoint_degree) ==
  IF Jseq = <<>> THEN <<>>
  ELSE FunctionalEntries(Head(Jseq), key, max_adjoint_degree)
         \o EntriesOf(Tail(Jseq), key, max_adjoint_degree)

\* J_tangent_linears: the reverse traversal that finds, for each functional, the
\* last equation producing it; tlm_adj as the sequence of its entries
\* (tlm_key, J_i, adj_tlm_key) in the order they are appended.
RECURSIVE TlmAdjFrom(_, _, _, _, _)
TlmAdjFrom(Js, blocks, ps, remaining, max_adjoint_degree) ==
  IF ps = <<>> \/ remaining = {} THEN <<>>
  ELSE LET eq == EqAt(blocks, Head(ps))
           found == IF isMarker(eq) THEN {}
                    ELSE {J_i \in remaining : var_id(Js[J_i]) \in Range(eq.X)}
       IN  EntriesOf(sorted(found), eq.tlm_key, max_adjoint_degree)
             \o TlmAdjFrom(Js, blocks, Tail(ps), remaining \ found, max_adjoint_degree)

J_tangent_linears(Js, blocks, max_adjoint_degree) ==
  TlmAdjFrom(Js, blocks, Reverse(Positions(blocks)), DOMAIN Js, max_adjoint_degree)

\* tlm_adj.get(tlm_key, ()): the pairs (J_i, adj_tlm_key) under tlm_key.
tlm_adj_get(tlm_adj, tlm_key) ==
  LET hits == SelectSeq(tlm_adj, LAMBDA e : e[1] = tlm_key)
  IN  [a \in DOMAIN hits |-> <<hits[a][2], hits[a][3]>>]

\* itertools.chain.from_iterable(tlm_adj.values()), up to its order.
tlm_adj_values(tlm_adj) == [a \in DOMAIN tlm_adj |-> <<tlm_adj[a][2], tlm_adj[a][3]>>]

\* AdjointCache.__init__: _cache_key is <<>> for None and <<key>> for a key.
NewCache == [_cache |-> EmptyDict, _keys |-> EmptyDict, _cache_key |-> <<>>]

Contains(c, key) == key \in DOMAIN c._cache

clear(c) == NewCache

\* Line 528: the stored cache key is None or differs from the new one.
StaleKeyNoneOnly(c, cache_key) == c._cache_key = <<>>

StaleKeyAlways(c, cache_key) == TRUE

StaleKey(c, cache_key) == c._cache_key = <<>> \/ c._cache_key # <<cache_key>>

\* Lines 524-526.
cache_key_of(Js, tlm_adj) ==
  LET pairs == SortPairs(tlm_adj_values(tlm_adj))
  IN  [a \in DOMAIN pairs |-> <<Js[pairs[a][1]].tlm_root_id, pairs[a][2]>>]

\* Lines 561-567 for the equation (n, i): the solved or cached adjoint variables
\* of the equation, with the derivative each of them stores.
CollectEntries(Js, g, st, eq, n, i) ==
  LET pairs == tlm_adj_get(st.tlm_adj, eq.tlm_key)
      kept == SelectSeq(pairs, LAMBDA e : is_solved(g, e[1], n, i) \/ <<e[1], n, i>> \in DOMAIN st._cache)
  IN  [a \in DOMAIN kept |-> <<<<kept[a][1], n, i>>, <<Js[kept[a][1]].tlm_root_id, kept[a][2]>>>>]

\* GroupEntries with the latest entry of a derivative made the root and the
\* root before it, with its aliases, made aliases.
RECURSIVE GroupEntriesLatestRoot(_, _, _)
GroupEntriesLatestRoot(items, eq_root, st) ==
  IF items = <<>> THEN st
  ELSE LET key == Head(items)[1]
           adj_key == Head(items)[2]
       IN  IF adj_key \in DOMAIN eq_root
           THEN LET root == eq_root[adj_key]
                IN  GroupEntriesLatestRoot(Tail(items), Put(eq_root, adj_key, key),
                      [st EXCEPT !._keys = Put(Remove(@, root), key, Append(@[root], root))])
           ELSE GroupEntriesLatestRoot(Tail(items), Put(eq_root, adj_key, key),
                      [st EXCEPT !._keys = Put(@, key, <<>>)])

\* Lines 572-586: the entries popped at a root equation, in order; eq_root maps a
\* derivative to its root adjoint variable, every later adjoint variable storing
\* the same derivative is appended to the root's aliases.
RECURSIVE GroupEntries(_, _, _)
GroupEntries(items, eq_root, st) ==
  IF items = <<>> THEN st
  ELSE LET key == Head(items)[1]
           adj_key == Head(items)[2]
       IN  IF adj_key \in DOMAIN eq_root
           THEN LET root == eq_root[adj_key]
                    cache1 == IF key \in DOMAIN st._cache /\ root \notin DOMAIN st._cache
                              THEN Put(st._cache, root, st._cache[key]) ELSE st._cache
                IN  GroupEntries(Tail(items), eq_root,
                      [st EXCEPT !._keys = Put(@, root, Append(@[root], key)), !._cache = cache1])
           ELSE GroupEntries(Tail(items), Put(eq_root, adj_key, key),
                      [st EXCEPT !._keys = Put(@, key, <<>>)])

\* Lines 545-586, the reverse traversal.  st.eqs is the dictionary eqs.
RECURSIVE RootPass(_, _, _, _, _, _)
RootPass(Js, blocks, g, ps, cache_degree, st) ==
  IF ps = <<>> \/ st.err # "ok" THEN st
  ELSE LET n == Head(ps)[1]
           i == Head(ps)[2]
           eq == blocks[n][i]
           items == CollectEntries(Js, g, st, eq, n, i)
           tooDeep == \E a \in DOMAIN items :
                        cache_degree # NoDegree /\ Len(items[a][2][2]) >= cache_degree
           old == IF eq.tlm_root_id \in DOMAIN st.eqs THEN st.eqs[eq.tlm_root_id] ELSE <<>>
           eqs1 == IF items = <<>> THEN st.eqs ELSE Put(st.eqs, eq.tlm_root_id, old \o items)
           popped == IF eq.id \in DOMAIN eqs1 THEN eqs1[eq.id] ELSE <<>>
       IN  IF isMarker(eq) THEN RootPass(Js, blocks, g, Tail(ps), cache_degree, st)
           ELSE IF tooDeep THEN [st EXCEPT !.err = "AssertionError"]
           ELSE RootPass(Js, blocks, g, Tail(ps), cache_degree,
                         GroupEntries(popped, EmptyDict, [st EXCEPT !.eqs = Remove(eqs1, eq.id)]))

\* The keys of lines 589-593 with the root cache slots added.
KeysNotSolvedWithRoots(c) ==
  DOMAIN c._cache \cup DOMAIN c._keys \cup UNION {Range(c._keys[root]) : root \in DOMAIN c._keys}

KeysNotSolvedCacheOnly(c) == DOMAIN c._cache

\* Lines 589-593: the keys whose solved flag initialize clears.
KeysNotSolved(c) ==
  DOMAIN c._cache \cup UNION {Range(c._keys[root]) : root \in DOMAIN c._keys}

RECURSIVE SetAllNotSolved(_, _)
SetAllNotSolved(g, keys) ==
  IF keys = {} THEN g
  ELSE LET key == CHOOSE x \in keys : TRUE
       IN  SetAllNotSolved(set_not_solved(g, key[1], key[2], key[3]), keys \ {key})

\* initialize() without the assertion that eqs is empty after the traversal.
initialize_eqs_unchecked(c, g, Js, blocks, cache_degree) ==
  LET tlm_adj == J_tangent_linears(Js, blocks, cache_degree)
      cache_key == cache_key_of(Js, tlm_adj)
      c1 == IF StaleKey(c, cache_key) THEN clear(c) ELSE c
      caching == cache_degree = NoDegree \/ cache_degree > 0
      st == IF caching
            THEN RootPass(Js, blocks, g, Reverse(Positions(blocks)), cache_degree,
                          [err |-> "ok", tlm_adj |-> tlm_adj, eqs |-> EmptyDict,
                           _keys |-> EmptyDict, _cache |-> c1._cache])
            ELSE [err |-> "ok", tlm_adj |-> tlm_adj, eqs |-> EmptyDict,
                  _keys |-> EmptyDict, _cache |-> c1._cache]
      c2 == [_cache |-> st._cache, _keys |-> st._keys,
             _cache_key |-> IF caching THEN <<cache_key>> ELSE <<>>]
      err == IF st.err # "ok" THEN st.err
             ELSE IF \E key \in KeysNotSolved(c2) : key[1] \notin DOMAIN g.solved THEN "KeyError"
             ELSE "ok"
  IN  [err |-> err,
       cache |-> c2,
       graph |-> IF err = "ok" THEN SetAllNotSolved(g, KeysNotSolved(c2)) ELSE g]

\* AdjointCache.initialize(Js, blocks, transpose_deps, cache_degree=...): the
\* cache and the graph it leaves, and the error it raises.
initialize(c, g, Js, blocks, cache_degree) ==
  LET tlm_adj == J_tangent_linears(Js, blocks, cache_degree)
      cache_key == cache_key_of(Js, tlm_adj)
      c1 == IF StaleKey(c, cache_key) THEN clear(c) ELSE c
      caching == cache_degree = NoDegree \/ cache_degree > 0
      st == IF caching
            THEN RootPass(Js, blocks, g, Reverse(Positions(blocks)), cache_degree,
                          [err |-> "ok", tlm_adj |-> tlm_adj, eqs |-> EmptyDict,
                           _keys |-> EmptyDict, _cache |-> c1._cache])
            ELSE [err |-> "ok", tlm_adj |-> tlm_adj, eqs |-> EmptyDict,
                  _keys |-> EmptyDict, _cache |-> c1._cache]
      c2 == [_cache |-> st._cache, _keys |-> st._keys,
             _cache_key |-> IF caching THEN <<cache_key>> ELSE <<>>]
      err == IF st.err # "ok" THEN st.err
             ELSE IF DOMAIN st.eqs # {} THEN "AssertionError"
             ELSE IF \E key \in KeysNotSolved(c2) : key[1] \notin DOMAIN g.solved THEN "KeyError"
             ELSE "ok"
  IN  [err |-> err,
       cache |-> c2,
       graph |-> IF err = "ok" THEN SetAllNotSolved(g, KeysNotSolved(c2)) ELSE g]

\* The variables cache() is handed by the call with number c, and the copy of
\* variables: an object of its own, with the value of the original.
AdjX(c) == <<"adj_X", c>>

var_copy(adj_X) == <<"copy", adj_X>>

\* AdjointCache.cache(J_i, n, i, adj_X, copy=..., store=...)
RECURSIVE PutAll(_, _, _)
PutAll(d, keys, value) ==
  IF keys = <<>> THEN d ELSE PutAll(Put(d, Head(keys), value), Tail(keys), value)

\* Lines 499-500: the key is registered, and is to be stored or has aliases.
stores(c, J_i, n, i, store) ==
  <<J_i, n, i>> \in DOMAIN c._keys /\ (store \/ Len(c._keys[<<J_i, n, i>>]) > 0)

RECURSIVE PutCopies(_, _, _)
PutCopies(d, keys, value) ==
  IF keys = <<>> THEN d
  ELSE PutCopies(Put(d, Head(keys), <<"copy", value>>), Tail(keys), value)

cache_copy_per_alias(c, J_i, n, i, adj_X, copy, store) ==
  LET key == <<J_i, n, i>>
  IN  IF stores(c, J_i, n, i, store)
      THEN LET value == IF key \in DOMAIN c._cache THEN c._cache[key]
                        ELSE IF copy THEN var_copy(adj_X) ELSE adj_X
               stored == IF store THEN Put(c._cache, key, value) ELSE c._cache
           IN  [c EXCEPT !._cache = PutCopies(stored, c._keys[key], value)]
      ELSE c

\* The value of existing cached entries is kept, whatever is handed to cache().
cache_overwrite(c, J_i, n, i, adj_X, copy, store) ==
  LET key == <<J_i, n, i>>
  IN  IF stores(c, J_i, n, i, store)
      THEN LET value == IF copy THEN var_copy(adj_X) ELSE adj_X
               stored == IF store THEN Put(c._cache, key, value) ELSE c._cache
           IN  [c EXCEPT !._cache = PutAll(stored, c._keys[key], value)]
      ELSE c

cache(c, J_i, n, i, adj_X, copy, store) ==
  LET key == <<J_i, n, i>>
  IN  IF stores(c, J_i, n, i, store)
      THEN LET value == IF key \in DOMAIN c._cache THEN c._cache[key]
                        ELSE IF copy THEN var_copy(adj_X) ELSE adj_X
               stored == IF store THEN Put(c._cache, key, value) ELSE c._cache
           IN  [c EXCEPT !._cache = PutAll(stored, c._keys[key], value)]
      ELSE c

\* AdjointCache.get(J_i, n, i, copy=...): "KeyError" for a key not in the cache.
get(c, J_i, n, i, copy) ==
  IF <<J_i, n, i>> \notin DOMAIN c._cache THEN [err |-> "KeyError", cache |-> c]
  ELSE [err |-> "ok", cache |-> c,
        adj_X |-> IF copy THEN var_copy(c._cache[<<J_i, n, i>>]) ELSE c._cache[<<J_i, n, i>>]]

\* AdjointCache.pop, taking with the key every key with the same value object.
AdjointCache_pop_shared(c, J_i, n, i, copy) ==
  IF <<J_i, n, i>> \notin DOMAIN c._cache THEN [err |-> "KeyError", cache |-> c]
  ELSE [err |-> "ok",
        cache |-> [c EXCEPT !._cache = [key \in {k \in DOMAIN @ : @[k] # @[<<J_i, n, i>>]} |-> @[key]]],
        adj_X |-> IF copy THEN var_copy(c._cache[<<J_i, n, i>>]) ELSE c._cache[<<J_i, n, i>>]]

\* AdjointCache.pop(J_i, n, i, copy=...)
AdjointCache_pop(c, J_i, n, i, copy) ==
  IF <<J_i, n, i>> \notin DOMAIN c._cache THEN [err |-> "KeyError", cache |-> c]
  ELSE [err |-> "ok", cache |-> [c EXCEPT !._cache = Remove(@, <<J_i, n, i>>)],
        adj_X |-> IF copy THEN var_copy(c._cache[<<J_i, n, i>>]) ELSE c._cache[<<J_i, n, i>>]]

\* AdjointCache.remove(J_i, n, i)
remove(c, J_i, n, i) ==
  IF <<J_i, n, i>> \notin DOMAIN c._cache THEN [err |-> "KeyError", cache |-> c]
  ELSE [err |-> "ok", cache |-> [c EXCEPT !._cache = Remove(@, <<J_i, n, i>>)]]

\* ------------------------------------------------------------- adjoint right-hand sides
\* AdjointRHS(x): no storage is allocated.  _b is <<>> for None and <<b>> for
\* the variable b.
AdjointRHS(x) == [_space_type |-> var_space_type(x, "conjugate_dual"), _b |-> <<>>]

AdjointRHS_is_empty(b) == b._b = <<>>

\* space_new(space, space_type=...): a new variable, the object with the number
\* fresh, with value zero.
space_new(space_type, fresh) == [id |-> fresh, space_type |-> space_type, value |-> 0]

\* subtract_adjoint_derivative_action(x, y): y is subtracted from x in place.
subtract_adjoint_derivative_action(x, y) == [x EXCEPT !.value = @ - y]

\* AdjointRHS.initialize(), allocating whether or not there is storage.
AdjointRHS_initialize_always(b, fresh) == [b EXCEPT !._b = <<space_new(b._space_type, fresh)>>]

\* AdjointRHS.initialize()
AdjointRHS_initialize(b, fresh) ==
  IF b._b = <<>> THEN [b EXCEPT !._b = <<space_new(b._space_type, fresh)>>] ELSE b

\* AdjointRHS.b(copy=...): the right-hand side and the variable returned.
AdjointRHS_b(b, copy, fresh) ==
  LET b1 == AdjointRHS_initialize(b, fresh)
  IN  [rhs |-> b1, ret |-> IF copy THEN var_copy(b1._b[1]) ELSE b1._b[1]]

\* AdjointRHS.sub(b), allocating for a term that is None as well.  The term is
\* <<>> for None and <<y>> for the value y.
AdjointRHS_sub_always(b, term, fresh) ==
  IF term # <<>>
  THEN [AdjointRHS_initialize(b, fresh) EXCEPT
          !._b[1] = subtract_adjoint_derivative_action(@, term[1])]
  ELSE AdjointRHS_initialize(b, fresh)

\* AdjointRHS.sub(b).  The term is <<>> for None and <<y>> for the value y.
AdjointRHS_sub(b, term, fresh) ==
  IF term # <<>>
  THEN [AdjointRHS_initialize(b, fresh) EXCEPT
          !._b[1] = subtract_adjoint_derivative_action(@, term[1])]
  ELSE b

\* AdjointEquationRHS(eq): one AdjointRHS for each forward variable of eq.X().
AdjointEquationRHS(eq) == [m \in 1..Len(eq.X) |-> AdjointRHS(eq.X[m])]

AdjointEquationRHS_is_empty(B) == \A m \in 1..Len(B) : AdjointRHS_is_empty(B[m])

\* AdjointBlockRHS(block): one AdjointEquationRHS for each equation.
AdjointBlockRHS(block) == [k \in 1..Len(block) |-> AdjointEquationRHS(block[k])]

AdjointBlockRHS_is_empty(B) == Len(B) = 0

\* AdjointBlockRHS.pop() taking the first equation of the block.
AdjointBlockRHS_pop_first(B) ==
  IF Len(B) = 0 THEN [err |-> "IndexError"]
  ELSE [err |-> "ok", i |-> 1, B |-> B[1], rest |-> Tail(B)]

\* AdjointBlockRHS.pop(): "IndexError" from the pop of an empty list.
AdjointBlockRHS_pop(B) ==
  IF Len(B) = 0 THEN [err |-> "IndexError"]
  ELSE [err |-> "ok", i |-> Len(B), B |-> B[Len(B)], rest |-> SubSeq(B, 1, Len(B) - 1)]

NoRHS == [_blocks_n |-> <<>>, _B |-> EmptyDict, built |-> FALSE]

AdjointModelRHS_is_empty(r) == DOMAIN r._B = {}

\* AdjointModelRHS._pop_empty(), with the block test made once.
_pop_empty_once(r) ==
  IF DOMAIN r._B # {} /\ AdjointBlockRHS_is_empty(r._B[r._blocks_n[Len(r._blocks_n)]])
  THEN [r EXCEPT !._blocks_n = SubSeq(@, 1, Len(@) - 1),
                 !._B = Remove(@, r._blocks_n[Len(r._blocks_n)])]
  ELSE r

\* AdjointModelRHS._pop_empty()
RECURSIVE _pop_empty(_)
_pop_empty(r) ==
  IF DOMAIN r._B # {} /\ AdjointBlockRHS_is_empty(r._B[r._blocks_n[Len(r._blocks_n)]])
  THEN _pop_empty([r EXCEPT !._blocks_n = SubSeq(@, 1, Len(@) - 1),
                           !._B = Remove(@, r._blocks_n[Len(r._blocks_n)])])
  ELSE r

\* AdjointModelRHS(blocks) without the call of _pop_empty().
AdjointModelRHS_keep_empty(blocks) ==
  [_blocks_n |-> blocks_n_of(blocks),
   _B |-> [n \in DOMAIN blocks |-> AdjointBlockRHS(blocks[n])],
   built |-> TRUE]

\* AdjointModelRHS(blocks)
AdjointModelRHS(blocks) ==
  _pop_empty([_blocks_n |-> blocks_n_of(blocks),
             _B |-> [n \in DOMAIN blocks |-> AdjointBlockRHS(blocks[n])],
             built |-> TRUE])

\* AdjointModelRHS.pop(): "IndexError" from _blocks_n[-1] of an empty list.
AdjointModelRHS_pop(r) ==
  IF r._blocks_n = <<>> THEN [err |-> "IndexError", rhs |-> r]
  ELSE LET n == r._blocks_n[Len(r._blocks_n)]
           popped == AdjointBlockRHS_pop(r._B[n])
       IN  IF popped.err # "ok" THEN [err |-> popped.err, rhs |-> r]
           ELSE [err |-> "ok", n |-> n, i |-> popped.i, B |-> popped.B,
                 rhs |-> _pop_empty([r EXCEPT !._B[n] = popped.rest])]

\* ------------------------------------------------------------- inputs
AdjTypes == {"primal", "conjugate_dual"}

RECURSIVE SeqSum(_)
SeqSum(s) == IF s = <<>> THEN 0 ELSE Head(s) + SeqSum(Tail(s))

\* Equations with one output x.  The dependencies are x alone or every variable,
\* in ascending order; both adjoint types occur, with and without x declared an
\* adjoint initial condition dependency.
SolveEquations ==
  {Equation(<<x>>, IF all THEN sorted(Vars) ELSE <<x>>, IF ic THEN {x} ELSE {},
            <<t>>, "Equation", 0, 0, <<>>) :
     x \in Vars, all \in BOOLEAN, ic \in BOOLEAN, t \in AdjTypes}

\* Equations that do not list their output among their dependencies.
BareEquations ==
  {Equation(<<x>>, <<>>, {}, <<"conjugate_dual">>, "Equation", 0, 0, <<>>) : x \in Vars}

\* Instructions: no output, no dependency or every variable as a dependency.
Instructions ==
  {Equation(<<>>, deps, {}, <<>>, "Instruction", 0, 0, <<>>) : deps \in {<<>>, sorted(Vars)}}

GraphEquations == SolveEquations \cup BareEquations \cup Instructions

\* The block lengths of a tape: at most MaxBlocks blocks of at least `least`
\* equations, at most `most` equations in all.
BlockSizes(least, most) ==
  {sz \in UNION {[1..b -> least..most] : b \in 0..MaxBlocks} : SeqSum(sz) <= most}

\* The tape with block lengths sz whose equations are, in tape order, es.
RECURSIVE SplitBlocks(_, _)
SplitBlocks(sz, es) ==
  IF sz = <<>> THEN <<>>
  ELSE <<SubSeq(es, 1, Head(sz))>> \o SplitBlocks(Tail(sz), SubSeq(es, Head(sz) + 1, Len(es)))

\* Js: the functional with index 1 is variable 2, the functional with index 2 is
\* variable 1.
FunctionalChoices == {<<Functional(2, 2), Functional(1, 1)>>}

\* M: the controls, as a set of variable ids.
ControlChoices == {{}, {1}, Vars}

\* ------------------------------------------------------------- state
\* blocks: the tape.  tcg: the TransposeComputationalGraph, args: the arguments
\* it was built from.  adj_cache: the AdjointCache.  adj_rhs: the
\* AdjointModelRHS.  last: the last operation op, the error err it raised and
\* its arguments arg (the cache degree of an initialize() call, the arguments of
\* a cache() call for a key to store, the position a pop() returned); the
\* number of cache() calls that stored a value, of initialize() calls and of
\* outside set_not_solved() calls so far; the number of initialize() calls that
\* returned for the present graph (initialized); the cache key of the latest
\* initialize() call and, right after an initialize() call, the cache key of
\* the call before it (prev_key) and the entries the cache held when it was
\* called (before); what the last get(), pop(), __contains__ or b() call
\* returned (ret); the calls made to the terms of the right-hand sides, or the
\* positions the pop() calls returned, in order (hist).
VARIABLES blocks, tcg, args, adj_cache, adj_rhs, last

vars == <<blocks, tcg, args, adj_cache, adj_rhs, last>>

NoCalls ==
  [op |-> "none", err |-> "ok", arg |-> <<>>, ncache |-> 0, ninit |-> 0, nset |-> 0,
   initialized |-> 0, ret |-> <<>>, hist |-> <<>>,
   key |-> <<>>, prev_key |-> <<>>, before |-> EmptyDict]

NoArgs == [Js |-> <<>>, M |-> {}, prune_forward |-> TRUE, prune_adjoint |-> TRUE]

\* The tape is recorded; no graph has been built.
InitGraph ==
  /\ \E sz \in BlockSizes(1, MaxEqs) : \E es \in [1..SeqSum(sz) -> GraphEquations] :
       blocks = SplitBlocks(sz, es)
  /\ tcg = NoGraph
  /\ args = NoArgs
  /\ adj_cache = NewCache
  /\ adj_rhs = NoRHS
  /\ last = NoCalls

\* TransposeComputationalGraph(Js, M, blocks, prune_forward=..., prune_adjoint=...)
Construct ==
  \E Js \in FunctionalChoices, M \in ControlChoices, pf \in BOOLEAN, pa \in BOOLEAN :
    /\ tcg = NoGraph
    /\ tcg' = TransposeComputationalGraph(Js, M, blocks, pf, pa)
    /\ args' = [Js |-> Js, M |-> M, prune_forward |-> pf, prune_adjoint |-> pa]
    /\ UNCHANGED <<blocks, adj_cache, adj_rhs, last>>

NextGraph == Construct

SpecGraph == InitGraph /\ [][NextGraph]_vars

\* ------------------------------------------------------------- the cache
\* The largest number of cache() calls and of initialize() calls in a run.
MaxCacheCalls == 2

MaxInitialize == 2

\* The largest number of set_not_solved() calls made from outside the cache.
MaxNotSolved == 1

\* The largest number of equations on a tape the cache is used with.
MaxCacheEqs == 2

\* Equation 1 is a forward equation solving for variable 1, equation 2 the
\* tangent-linear equation derived from it in direction 1, solving for variable
\* 2; both depend on every variable.  A ControlsMarker.
CacheEquations ==
  {Equation(<<1>>, sorted(Vars), {}, <<"conjugate_dual">>, "Equation", 1, 1, <<>>),
   Equation(<<2>>, sorted(Vars), {}, <<"conjugate_dual">>, "Equation", 2, 1, <<1>>),
   Equation(<<1>>, <<1>>, {}, <<"conjugate_dual">>, "ControlsMarker", 3, 3, <<>>)}

\* Js: functional 1, its tangent-linear (variable 2 with root functional 1), and
\* variable 2 as an independent functional.
CacheFunctionalChoices ==
  {<<Functional(1, 1)>>, <<Functional(1, 1), Functional(1, 1)>>,
   <<Functional(1, 1), Functional(2, 1)>>, <<Functional(2, 1), Functional(1, 1)>>,
   <<Functional(1, 1), Functional(2, 2)>>}

CacheDegrees == {NoDegree, 0, 1}

InitCache ==
  /\ \E sz \in BlockSizes(1, MaxCacheEqs) : \E es \in [1..SeqSum(sz) -> CacheEquations] :
       blocks = SplitBlocks(sz, es)
  /\ tcg = NoGraph
  /\ args = NoArgs
  /\ adj_cache = NewCache
  /\ adj_rhs = NoRHS
  /\ last = NoCalls

\* A graph is built for a derivative calculation, with both prunings and every
\* variable a control: at first, and again after the cache was initialized for
\* the previous one.  Every functional is a variable the tape solves for.
Rebuild ==
  \E Js \in CacheFunctionalChoices, pruned \in {TRUE} :
    /\ tcg = NoGraph \/ last.op \notin {"construct", "set_not_solved"}
    /\ last.ninit < MaxInitialize
    /\ \A J_i \in DOMAIN Js : \E pos \in Range(Positions(blocks)) :
         var_id(Js[J_i]) \in Range(EqAt(blocks, pos).X)
    /\ tcg' = TransposeComputationalGraph(Js, Vars, blocks, pruned, pruned)
    /\ args' = [Js |-> Js, M |-> Vars, prune_forward |-> pruned, prune_adjoint |-> pruned]
    /\ last' = [last EXCEPT !.op = "construct", !.err = tcg'.err, !.arg = <<>>,
                            !.initialized = 0,
                            !.prev_key = <<>>, !.before = EmptyDict]
    /\ UNCHANGED <<blocks, adj_cache, adj_rhs>>

\* transpose_deps.set_not_solved(J_i, n, i)
SetNotSolved ==
  \E J_i \in DOMAIN args.Js, pos \in Range(Positions(blocks)) :
    /\ tcg.err = "ok"
    /\ last.nset < MaxNotSolved
    /\ tcg' = set_not_solved(tcg, J_i, pos[1], pos[2])
    /\ last' = [last EXCEPT !.op = "set_not_solved", !.err = "ok", !.nset = @ + 1,
                            !.arg = <<>>, !.prev_key = <<>>, !.before = EmptyDict]
    /\ UNCHANGED <<blocks, args, adj_cache, adj_rhs>>

\* adj_cache.initialize(Js, blocks, transpose_deps, cache_degree=...)
Initialize ==
  \E cache_degree \in CacheDegrees :
    LET r == initialize(adj_cache, tcg, args.Js, blocks, cache_degree)
    IN  /\ tcg.err = "ok"
        /\ last.ninit < MaxInitialize
        /\ adj_cache' = r.cache
        /\ tcg' = r.graph
        /\ last' = [last EXCEPT !.op = "initialize", !.err = r.err, !.ninit = @ + 1,
                                !.arg = <<cache_degree>>,
                                !.initialized = IF r.err = "ok" THEN @ + 1 ELSE @,
                                !.key = cache_key_of(args.Js,
                                          J_tangent_linears(args.Js, blocks, cache_degree)),
                                !.prev_key = last.key,
                                !.before = adj_cache._cache]
        /\ UNCHANGED <<blocks, args, adj_rhs>>

\* adj_cache.cache(J_i, n, i, adj_X, copy=..., store=...)
Cache ==
  \E J_i \in DOMAIN args.Js, pos \in Range(Positions(blocks)), copy \in BOOLEAN, store \in BOOLEAN :
    /\ tcg.err = "ok"
    /\ last.ncache < MaxCacheCalls
    /\ adj_cache' = cache(adj_cache, J_i, pos[1], pos[2], AdjX(last.ncache + 1), copy, store)
    /\ last' = [last EXCEPT !.op = "cache", !.err = "ok",
                            !.arg = IF stores(adj_cache, J_i, pos[1], pos[2], store)
                                    THEN <<J_i, pos[1], pos[2], copy, store>> ELSE <<>>,
                            !.ncache = IF adj_cache' = adj_cache THEN @ ELSE @ + 1,
                            !.prev_key = <<>>, !.before = EmptyDict]
    /\ UNCHANGED <<blocks, tcg, args, adj_rhs>>

NextCache == Rebuild \/ SetNotSolved \/ Initialize \/ Cache

SpecCache == InitCache /\ [][NextCache]_vars

\* ------------------------------------------------------------- access to the cache
MaxAccess == 3

\* The cache has been initialized for a graph of the tape, and initialize()
\* returned.
InitAccess ==
  /\ \E sz \in BlockSizes(1, MaxCacheEqs) : \E es \in [1..SeqSum(sz) -> CacheEquations] :
       blocks = SplitBlocks(sz, es)
  /\ \E Js \in CacheFunctionalChoices, cache_degree \in CacheDegrees :
       LET g == TransposeComputationalGraph(Js, Vars, blocks, TRUE, TRUE)
           r == initialize(NewCache, g, Js, blocks, cache_degree)
       IN  /\ \A J_i \in DOMAIN Js : \E pos \in Range(Positions(blocks)) :
                var_id(Js[J_i]) \in Range(EqAt(blocks, pos).X)
           /\ g.err = "ok" /\ r.err = "ok"
           /\ tcg = r.graph
           /\ args = [Js |-> Js, M |-> Vars, prune_forward |-> TRUE, prune_adjoint |-> TRUE]
           /\ adj_cache = r.cache
           /\ last = [NoCalls EXCEPT !.op = "initialize", !.arg = <<cache_degree>>,
                                     !.ninit = 1, !.initialized = 1,
                                     !.key = cache_key_of(Js, J_tangent_linears(Js, blocks, cache_degree))]
  /\ adj_rhs = NoRHS

\* adj_cache.cache(J_i, n, i, adj_X, copy=..., store=...); last.ncache counts
\* the calls made to the cache.
CacheCall ==
  \E J_i \in DOMAIN args.Js, pos \in Range(Positions(blocks)), copy \in BOOLEAN, store \in BOOLEAN :
    /\ last.ncache < MaxAccess
    /\ adj_cache' = cache(adj_cache, J_i, pos[1], pos[2], AdjX(last.ncache + 1), copy, store)
    /\ last' = [last EXCEPT !.op = "cache", !.err = "ok", !.ncache = @ + 1, !.ret = <<>>,
                            !.arg = <<J_i, pos[1], pos[2], copy, store>>]
    /\ UNCHANGED <<blocks, tcg, args, adj_rhs>>

\* adj_cache.get(J_i, n, i, copy=...)
Get ==
  \E J_i \in DOMAIN args.Js, pos \in Range(Positions(blocks)), copy \in BOOLEAN :
    LET r == get(adj_cache, J_i, pos[1], pos[2], copy)
    IN  /\ last.ncache < MaxAccess
        /\ adj_cache' = r.cache
        /\ last' = [last EXCEPT !.op = "get", !.err = r.err, !.ncache = @ + 1,
                                !.ret = IF r.err = "ok" THEN <<r.adj_X>> ELSE <<>>,
                                !.arg = <<J_i, pos[1], pos[2], copy>>]
        /\ UNCHANGED <<blocks, tcg, args, adj_rhs>>

\* adj_cache.pop(J_i, n, i, copy=...)
PopEntry ==
  \E J_i \in DOMAIN args.Js, pos \in Range(Positions(blocks)), copy \in BOOLEAN :
    LET r == AdjointCache_pop(adj_cache, J_i, pos[1], pos[2], copy)
    IN  /\ last.ncache < MaxAccess
        /\ adj_cache' = r.cache
        /\ last' = [last EXCEPT !.op = "pop", !.err = r.err, !.ncache = @ + 1,
                                !.ret = IF r.err = "ok" THEN <<r.adj_X>> ELSE <<>>,
                                !.arg = <<J_i, pos[1], pos[2], copy>>]
        /\ UNCHANGED <<blocks, tcg, args, adj_rhs>>

\* adj_cache.remove(J_i, n, i)
RemoveEntry ==
  \E J_i \in DOMAIN args.Js, pos \in Range(Positions(blocks)) :
    LET r == remove(adj_cache, J_i, pos[1], pos[2])
    IN  /\ last.ncache < MaxAccess
        /\ adj_cache' = r.cache
        /\ last' = [last EXCEPT !.op = "remove", !.err = r.err, !.ncache = @ + 1,
                                !.ret = <<>>, !.arg = <<J_i, pos[1], pos[2]>>]
        /\ UNCHANGED <<blocks, tcg, args, adj_rhs>>

\* (J_i, n, i) in adj_cache
ContainsKey ==
  \E J_i \in DOMAIN args.Js, pos \in Range(Positions(blocks)) :
    /\ last.ncache < MaxAccess
    /\ last' = [last EXCEPT !.op = "__contains__", !.err = "ok", !.ncache = @ + 1,
                            !.ret = <<Contains(adj_cache, <<J_i, pos[1], pos[2]>>)>>,
                            !.arg = <<J_i, pos[1], pos[2]>>]
    /\ UNCHANGED <<blocks, tcg, args, adj_cache, adj_rhs>>

NextAccess == CacheCall \/ Get \/ PopEntry \/ RemoveEntry \/ ContainsKey

SpecAccess == InitAccess /\ [][NextAccess]_vars

\* ------------------------------------------------------------- right-hand sides of a tape
MaxIndex == 4

\* Equations with one output, and the equation with every variable an output.
RHSEquations ==
  BareEquations \cup
    {Equation(sorted(Vars), sorted(Vars), {}, [m \in 1..NVars |-> "conjugate_dual"],
              "Equation", 0, 0, <<>>)}

\* The number of equations of the blocks with the indices ns.
RECURSIVE SizeOf(_, _)
SizeOf(sz, ns) ==
  IF ns = {} THEN 0
  ELSE LET n == CHOOSE n \in ns : TRUE IN sz[n] + SizeOf(sz, ns \ {n})

\* The tape with the block indices of DOMAIN sz, block n of sz[n] equations,
\* whose equations are, in tape order, es.
TapeOf(sz, es) ==
  [n \in DOMAIN sz |->
     LET before == SizeOf(sz, {p \in DOMAIN sz : p < n})
     IN  SubSeq(es, before + 1, before + sz[n])]

\* The tape is a sequence of blocks or a mapping from some indices to blocks;
\* any block may be empty.
InitRHS ==
  /\ \E ns \in SUBSET (1..MaxIndex) :
       \E sz \in {sz \in [ns -> 0..MaxEqs] : SizeOf(sz, ns) <= MaxEqs} :
         \E es \in [1..SizeOf(sz, ns) -> RHSEquations] :
           blocks = TapeOf(sz, es)
  /\ tcg = NoGraph
  /\ args = NoArgs
  /\ adj_cache = NewCache
  /\ adj_rhs = NoRHS
  /\ last = NoCalls

\* AdjointModelRHS(blocks)
NewRHS ==
  /\ ~adj_rhs.built
  /\ adj_rhs' = AdjointModelRHS(blocks)
  /\ last' = [last EXCEPT !.op = "AdjointModelRHS", !.err = "ok", !.arg = <<>>]
  /\ UNCHANGED <<blocks, tcg, args, adj_cache>>

\* adj_rhs.pop()
Pop ==
  LET r == AdjointModelRHS_pop(adj_rhs)
  IN  /\ adj_rhs.built
      /\ adj_rhs' = r.rhs
      /\ last' = [last EXCEPT !.op = "pop", !.err = r.err,
                              !.arg = IF r.err = "ok" THEN <<r.n, r.i>> ELSE <<>>,
                              !.hist = IF r.err = "ok" THEN Append(@, <<r.n, r.i>>) ELSE @]
      /\ UNCHANGED <<blocks, tcg, args, adj_cache>>

NextRHS == NewRHS \/ Pop

SpecRHS == InitRHS /\ [][NextRHS]_vars

\* ------------------------------------------------------------- terms of a right-hand side
MaxTermCalls == 4

\* The terms handed to sub(): None, and two derivative actions.
Terms == {<<>>, <<1>>, <<2>>}

\* The tape has one equation, with one output or several.
InitTerms ==
  /\ \E eq \in RHSEquations : blocks = <<<<eq>>>>
  /\ tcg = NoGraph
  /\ args = NoArgs
  /\ adj_cache = NewCache
  /\ adj_rhs = NoRHS
  /\ last = NoCalls

\* The AdjointRHS objects adj_rhs[(p, k, m)].
RHSKeysOf(r) ==
  {key \in {<<p, k, m>> : p \in DOMAIN r._B, k \in 1..MaxEqs, m \in 1..NVars} :
     key[2] \in DOMAIN r._B[key[1]] /\ key[3] \in DOMAIN r._B[key[1]][key[2]]}

RHSKeys == RHSKeysOf(adj_rhs)

\* adj_rhs[(p, k, m)]
getitem(r, key) == r._B[key[1]][key[2]][key[3]]

\* A call to adj_rhs[(p, k, m)] that leaves the AdjointRHS b and returns ret;
\* last.ncache counts the calls.
TermCall(key, op, arg, b, ret) ==
  /\ adj_rhs' = [adj_rhs EXCEPT !._B[key[1]][key[2]][key[3]] = b]
  /\ last' = [last EXCEPT !.op = op, !.err = "ok", !.arg = <<key, arg>>, !.ret = ret,
                          !.ncache = @ + 1, !.hist = Append(@, <<key, op, arg>>)]
  /\ UNCHANGED <<blocks, tcg, args, adj_cache>>

\* adj_rhs[(p, k, m)].sub(b)
Sub ==
  \E key \in RHSKeys, term \in Terms :
    /\ last.ncache < MaxTermCalls
    /\ TermCall(key, "sub", term,
                AdjointRHS_sub(getitem(adj_rhs, key), term, last.ncache + 1), <<>>)

\* adj_rhs[(p, k, m)].initialize()
InitializeTerm ==
  \E key \in RHSKeys :
    /\ last.ncache < MaxTermCalls
    /\ TermCall(key, "initialize", <<>>,
                AdjointRHS_initialize(getitem(adj_rhs, key), last.ncache + 1), <<>>)

\* adj_rhs[(p, k, m)].b(copy=...)
B ==
  \E key \in RHSKeys, copy \in BOOLEAN :
    LET r == AdjointRHS_b(getitem(adj_rhs, key), copy, last.ncache + 1)
    IN  /\ last.ncache < MaxTermCalls
        /\ TermCall(key, "b", <<copy>>, r.rhs, <<r.ret>>)

\* adj_rhs[(p, k, m)].is_empty()
IsEmpty ==
  \E key \in RHSKeys :
    /\ last.ncache < MaxTermCalls
    /\ TermCall(key, "is_empty", <<>>, getitem(adj_rhs, key),
                <<AdjointRHS_is_empty(getitem(adj_rhs, key))>>)

NextTerms == NewRHS \/ Sub \/ InitializeTerm \/ B \/ IsEmpty

SpecTerms == InitTerms /\ [][NextTerms]_vars

\* ------------------------------------------------------------- queries of the graph
\* The tapes of equations with one output, the graph built for them with both
\* prunings or with none and every variable a control, and set_not_solved()
\* calls made on it; the queries has_adj_ic(), is_stored_adj_ic() and adj_Bs()
\* read the graph and leave it as it is.
InitQuery ==
  /\ \E sz \in BlockSizes(1, MaxEqs) : \E es \in [1..SeqSum(sz) -> SolveEquations] :
       blocks = SplitBlocks(sz, es)
  /\ tcg = NoGraph
  /\ args = NoArgs
  /\ adj_cache = NewCache
  /\ adj_rhs = NoRHS
  /\ last = NoCalls

\* TransposeComputationalGraph(Js, M, blocks, prune_forward=..., prune_adjoint=...)
BuildGraph ==
  \E Js \in FunctionalChoices, pruned \in BOOLEAN :
    /\ tcg = NoGraph
    /\ tcg' = TransposeComputationalGraph(Js, Vars, blocks, pruned, pruned)
    /\ args' = [Js |-> Js, M |-> Vars, prune_forward |-> pruned, prune_adjoint |-> pruned]
    /\ last' = [last EXCEPT !.op = "construct", !.err = tcg'.err]
    /\ UNCHANGED <<blocks, adj_cache, adj_rhs>>

\* transpose_deps.set_not_solved(J_i, n, i), the call recorded.
MarkNotSolved ==
  \E J_i \in DOMAIN args.Js, pos \in Range(Positions(blocks)) :
    /\ tcg.err = "ok"
    /\ last.nset < MaxNotSolved
    /\ tcg' = set_not_solved(tcg, J_i, pos[1], pos[2])
    /\ last' = [last EXCEPT !.op = "set_not_solved", !.err = "ok", !.nset = @ + 1,
                            !.arg = <<J_i, pos[1], pos[2]>>]
    /\ UNCHANGED <<blocks, args, adj_cache, adj_rhs>>

NextQuery == BuildGraph \/ MarkNotSolved

SpecQuery == InitQuery /\ [][NextQuery]_vars

\* ------------------------------------------------------------- forward pruning
\* Equations with one output, with and without it declared an adjoint initial
\* condition dependency; the equation with every variable an output; the
\* Instruction that reads every variable.
ForwardEquations ==
  {Equation(<<x>>, IF all THEN sorted(Vars) ELSE <<x>>, IF ic THEN {x} ELSE {},
            <<"conjugate_dual">>, "Equation", 0, 0, <<>>) :
     x \in Vars, all \in BOOLEAN, ic \in BOOLEAN}
  \cup {Equation(sorted(Vars), sorted(Vars), {}, [m \in 1..NVars |-> "conjugate_dual"],
                 "Equation", 0, 0, <<>>),
        Equation(<<>>, sorted(Vars), {}, <<>>, "Instruction", 0, 0, <<>>)}

InitForward ==
  /\ \E sz \in BlockSizes(1, MaxEqs) : \E es \in [1..SeqSum(sz) -> ForwardEquations] :
       blocks = SplitBlocks(sz, es)
  /\ tcg = NoGraph
  /\ args = NoArgs
  /\ adj_cache = NewCache
  /\ adj_rhs = NoRHS
  /\ last = NoCalls

SpecForward == InitForward /\ [][NextGraph]_vars

\* ------------------------------------------------------------- properties
Built == tcg.err = "ok"

AllPositions == Range(Positions(blocks))

\* Position a comes strictly before position b in tape order.
Before(a, b) == a[1] < b[1] \/ (a[1] = b[1] /\ a[2] < b[2])

Produces(pos, x) == x \in Range(EqAt(blocks, pos).X)

EdgeSource(key) == <<key[1], key[2]>>

EdgeTarget(d, key) == <<d[key][1], d[key][2]>>

\* C1: every transpose edge (n,i,j) -> (p,k,m) links dependency slot j of (n,i)
\* to output m of (p,k) holding the same variable, (p,k) is strictly earlier
\* than (n,i) in tape order, and no equation between them produces that
\* variable: the edge targets the most recent prior producer.
C1_Shadowing ==
  Built =>
    \A key \in DOMAIN tcg.transpose_deps :
      LET src == EdgeSource(key)
          tgt == EdgeTarget(tcg.transpose_deps, key)
          x == EqAt(blocks, src).deps[key[3]]
      IN  /\ tgt \in AllPositions
          /\ tcg.transpose_deps[key][3] \in DOMAIN EqAt(blocks, tgt).X
          /\ EqAt(blocks, tgt).X[tcg.transpose_deps[key][3]] = x
          /\ Before(tgt, src)
          /\ \A q \in AllPositions : Before(tgt, q) /\ Before(q, src) => ~Produces(q, x)

\* An edge whose variable has an earlier, shadowed producer, across two blocks.
C1_Witness ==
  /\ Built
  /\ \E key \in DOMAIN tcg.transpose_deps :
       /\ \E q \in AllPositions :
            /\ Before(q, EdgeTarget(tcg.transpose_deps, key))
            /\ Produces(q, EqAt(blocks, EdgeSource(key)).deps[key[3]])
       /\ tcg.transpose_deps[key][1] < key[1]

Functionals == DOMAIN args.Js

NotInstruction(pos) == ~isInstruction(EqAt(blocks, pos))

\* The positions from which a dependency edge of d leads into R, added to R
\* until nothing changes.
RECURSIVE DownstreamClosure(_, _)
DownstreamClosure(d, R) ==
  LET R1 == R \cup {EdgeSource(key) : key \in {a \in DOMAIN d : EdgeTarget(d, a) \in R}}
  IN  IF R1 = R THEN R ELSE DownstreamClosure(d, R1)

\* The positions into which a dependency edge of d leads from R, added to R
\* until nothing changes.
RECURSIVE UpstreamClosure(_, _)
UpstreamClosure(d, R) ==
  LET R1 == R \cup {EdgeTarget(d, key) : key \in {a \in DOMAIN d : EdgeSource(a) \in R}}
  IN  IF R1 = R THEN R ELSE UpstreamClosure(d, R1)

\* The first equation of the tape that produces x, if any.
FirstProducers(x) ==
  {pos \in AllPositions : Produces(pos, x) /\ \A q \in AllPositions : Produces(q, x) => ~Before(q, pos)}

\* The last equation of the tape that produces x, if any.
LastProducers(x) ==
  {pos \in AllPositions : Produces(pos, x) /\ \A q \in AllPositions : Produces(q, x) => ~Before(pos, q)}

\* The edges the forward-pruning pass follows.
PruningEdges == transpose_deps_ics_of(blocks, tcg.transpose_deps).ics

\* The equations reachable forward from the controls.
ForwardReachable ==
  DownstreamClosure(PruningEdges, UNION {FirstProducers(x) : x \in args.M})

\* The equations read, directly or transitively, on the way to the last
\* producer of the functional with index J_i.
AdjointReachable(J_i) ==
  UpstreamClosure(tcg.transpose_deps, LastProducers(var_id(args.Js[J_i])))

\* C2: with prune_forward=True an equation that is no Instruction and is not
\* reachable forward from the controls is inactive for every functional.
C2_ForwardPruning ==
  Built /\ args.prune_forward =>
    \A J_i \in Functionals : \A pos \in AllPositions :
      NotInstruction(pos) /\ pos \notin ForwardReachable => ~is_active(tcg, J_i, pos[1], pos[2])

\* A later producer of a control that is not reachable, beside an equation that
\* is reachable through an edge only.
C2_Witness ==
  /\ Built /\ args.prune_forward /\ args.M # {}
  /\ \E pos \in AllPositions, x \in args.M :
       /\ NotInstruction(pos) /\ Produces(pos, x)
       /\ pos \notin ForwardReachable
       /\ ~is_active(tcg, 1, pos[1], pos[2])
  /\ \E pos \in ForwardReachable : pos \notin UNION {FirstProducers(x) : x \in args.M}

\* C3: with prune_adjoint=True an equation that is no Instruction and is not
\* read, directly or transitively through primary transpose edges, on the way to
\* the last producer of J, nor is that producer, is inactive for J.
C3_AdjointPruning ==
  Built /\ args.prune_adjoint =>
    \A J_i \in Functionals : \A pos \in AllPositions :
      NotInstruction(pos) /\ pos \notin AdjointReachable(J_i) => ~is_active(tcg, J_i, pos[1], pos[2])

\* A shadowed producer of J is pruned although forward pruning is off, while an
\* equation read by the last producer of J is kept.
C3_Witness ==
  /\ Built /\ args.prune_adjoint /\ ~args.prune_forward
  /\ \E J_i \in Functionals :
       /\ \E pos \in AllPositions :
            /\ Produces(pos, var_id(args.Js[J_i]))
            /\ pos \notin AdjointReachable(J_i)
            /\ ~is_active(tcg, J_i, pos[1], pos[2])
       /\ \E pos \in AdjointReachable(J_i) :
            pos \notin LastProducers(var_id(args.Js[J_i])) /\ is_active(tcg, J_i, pos[1], pos[2])

\* C4: an Instruction is active for every functional, whatever the controls and
\* the pruning flags.
C4_InstructionActive ==
  Built =>
    \A J_i \in Functionals : \A pos \in AllPositions :
      isInstruction(EqAt(blocks, pos)) => is_active(tcg, J_i, pos[1], pos[2])

\* An Instruction on a tape pruned both ways with no control, next to an
\* equation that was pruned.
C4_Witness ==
  /\ Built /\ args.prune_forward /\ args.prune_adjoint /\ args.M = {}
  /\ \E pos \in AllPositions :
       isInstruction(EqAt(blocks, pos)) /\ is_active(tcg, 1, pos[1], pos[2])
  /\ \E pos \in AllPositions : ~is_active(tcg, 1, pos[1], pos[2])

\* C5 as stated: with prune_forward=False every equation is active for every
\* functional.
C5_Original ==
  Built /\ ~args.prune_forward =>
    \A J_i \in Functionals : \A pos \in AllPositions : is_active(tcg, J_i, pos[1], pos[2])

\* C5, amended: with prune_forward=False every equation is forward-active, so an
\* equation is active for J exactly if prune_adjoint is False, or it is an
\* Instruction, or it is read on the way to the last producer of J.
C5_NoForwardPruning ==
  Built /\ ~args.prune_forward =>
    \A J_i \in Functionals : \A pos \in AllPositions :
      is_active(tcg, J_i, pos[1], pos[2])
        <=> (~args.prune_adjoint \/ ~NotInstruction(pos) \/ pos \in AdjointReachable(J_i))

\* Without forward pruning and with controls that no equation of the tape is
\* downstream of, every equation is active when adjoint pruning is off too.
C5_Witness ==
  /\ Built /\ ~args.prune_forward /\ ~args.prune_adjoint
  /\ args.M # {} /\ Cardinality(AllPositions) = MaxEqs
  /\ \E pos \in AllPositions : NotInstruction(pos) /\ pos \notin ForwardReachable
  /\ \A J_i \in Functionals : \A pos \in AllPositions : is_active(tcg, J_i, pos[1], pos[2])

\* C6: a solved equation is an active one, whatever set_not_solved and
\* initialize calls were made on the graph.
C6_SolvedImpliesActive ==
  Built =>
    \A J_i \in Functionals : \A pos \in AllPositions :
      is_solved(tcg, J_i, pos[1], pos[2]) => is_active(tcg, J_i, pos[1], pos[2])

\* After an outside set_not_solved call and an initialize call that cleared a
\* flag of its own: an inactive equation, a solved one, and two active ones that
\* are not solved any more.
C6_Witness ==
  /\ Built /\ last.op = "initialize" /\ last.err = "ok" /\ last.nset > 0
  /\ KeysNotSolved(adj_cache) # {}
  /\ \E J_i \in Functionals :
       /\ \E pos \in AllPositions : ~is_active(tcg, J_i, pos[1], pos[2])
       /\ \E pos \in AllPositions : is_solved(tcg, J_i, pos[1], pos[2])
  /\ Cardinality({key \in {<<J_i, pos[1], pos[2]>> : J_i \in Functionals, pos \in AllPositions} :
                    is_active(tcg, key[1], key[2], key[3]) /\ ~is_solved(tcg, key[1], key[2], key[3])}) >= 2

\* C7: after the construction of an AdjointModelRHS and after every pop(), the
\* structure is empty or its last block has an equation.
C7_LastBlockNotEmpty ==
  adj_rhs.built =>
    \/ AdjointModelRHS_is_empty(adj_rhs)
    \/ ~AdjointBlockRHS_is_empty(adj_rhs._B[adj_rhs._blocks_n[Len(adj_rhs._blocks_n)]])

\* A pop() from a mapping with a missing index took the last equation of a block
\* and removed that block and an empty block before it; a block is left.
C7_Witness ==
  /\ last.op = "pop" /\ last.err = "ok"
  /\ ~AdjointModelRHS_is_empty(adj_rhs)
  /\ DOMAIN blocks # 1..Cardinality(DOMAIN blocks)
  /\ last.arg[1] \notin DOMAIN adj_rhs._B
  /\ \E n \in DOMAIN blocks \ DOMAIN adj_rhs._B : n < last.arg[1] /\ blocks[n] = <<>>

SecondInitialize == last.op = "initialize" /\ last.ninit >= 2

\* C8: when the pairs (root functional id, derivative-chain key) of an
\* initialize call differ, as a set, from those of the call before it, no entry
\* the cache held before the call is in the cache after it.
C8_KeyChangeClears ==
  SecondInitialize /\ Range(last.key) # Range(last.prev_key) =>
    DOMAIN last.before \cap DOMAIN adj_cache._cache = {}

\* A second initialize call with different pairs that found entries in the cache.
C8_Witness ==
  /\ SecondInitialize /\ Range(last.key) # Range(last.prev_key)
  /\ last.err = "ok" /\ last.arg # <<0>>
  /\ DOMAIN last.before # {}
  /\ adj_cache._cache = EmptyDict

\* The entries the cache held before the latest initialize call are still there,
\* with the same value, and are marked not solved in the graph.
EntriesKept ==
  \A key \in DOMAIN last.before :
    /\ key \in DOMAIN adj_cache._cache
    /\ adj_cache._cache[key] = last.before[key]
    /\ ~is_solved(tcg, key[1], key[2], key[3])

\* C9 as stated: when the set of pairs of an initialize call is that of the call
\* before it, every entry the cache held is kept and marked not solved.
C9_Original ==
  SecondInitialize /\ last.err = "ok" /\ Range(last.key) = Range(last.prev_key) => EntriesKept

\* C9, amended: when the tuple of pairs of an initialize call, ordered by the
\* index of the functional, is that of the call before it and the call returns,
\* every entry the cache held is kept and marked not solved.
C9_SameKeyKeeps ==
  SecondInitialize /\ last.err = "ok" /\ last.key = last.prev_key => EntriesKept

\* A second initialize call with the same key that found entries in the cache.
C9_Witness ==
  /\ SecondInitialize /\ last.err = "ok" /\ last.key = last.prev_key
  /\ DOMAIN last.before # {}
  /\ EntriesKept

\* The latest operation is a cache() call that stored a value, made for
\* functional J_0 after one initialize() call returned for the graph, with no
\* set_not_solved call from outside; J_1 is another functional with the root
\* functional and the derivative chain of J_0, the equation is active for both
\* and the key of J_0 is a root slot.
SharedRootSlot(J_0, J_1) ==
  /\ last.op = "cache" /\ last.arg # <<>> /\ last.arg[1] = J_0
  /\ last.initialized = 1 /\ last.nset = 0
  /\ J_0 \in Functionals /\ J_1 \in Functionals /\ J_0 # J_1
  /\ args.Js[J_0] = args.Js[J_1]
  /\ is_active(tcg, J_0, last.arg[2], last.arg[3])
  /\ is_active(tcg, J_1, last.arg[2], last.arg[3])
  /\ <<J_0, last.arg[2], last.arg[3]>> \in DOMAIN adj_cache._keys

BothCached(J_0, J_1) ==
  LET key_0 == <<J_0, last.arg[2], last.arg[3]>>
      key_1 == <<J_1, last.arg[2], last.arg[3]>>
  IN  /\ Contains(adj_cache, key_0) /\ Contains(adj_cache, key_1)
      /\ adj_cache._cache[key_0] = adj_cache._cache[key_1]

NumberSolved(J_0, J_1) ==
  Cardinality({J_i \in {J_0, J_1} : is_solved(tcg, J_i, last.arg[2], last.arg[3])})

AliasKeys ==
  {key \in {<<J_i, pos[1], pos[2]>> : J_i \in Functionals, pos \in AllPositions} :
     \E root \in DOMAIN adj_cache._keys :
       \E a \in DOMAIN adj_cache._keys[root] : adj_cache._keys[root][a] = key}

\* C11: when initialize() has returned, no key in the cache and no alias of a
\* root cache slot is solved in the graph it was given.
C11_CachedNotSolved ==
  last.op = "initialize" /\ last.err = "ok" =>
    \A key \in DOMAIN adj_cache._cache \cup AliasKeys :
      ~is_solved(tcg, key[1], key[2], key[3])

\* initialize() returned with a key in the cache, an alias that is not in the
\* cache, and an equation left solved.
C11_Witness ==
  /\ last.op = "initialize" /\ last.err = "ok"
  /\ DOMAIN adj_cache._cache # {}
  /\ AliasKeys \ DOMAIN adj_cache._cache # {}
  /\ \E J_i \in Functionals : \E pos \in AllPositions : is_solved(tcg, J_i, pos[1], pos[2])

\* A step of a cache() call, for the key, the variables adj_X and the flags in
\* last'.arg; the aliases registered for the key and the value object the call
\* is to store.
CacheStep == last'.op = "cache" /\ last'.ncache = last.ncache + 1

CacheStepKey == <<last'.arg[1], last'.arg[2], last'.arg[3]>>

CacheStepAliases ==
  IF CacheStepKey \in DOMAIN adj_cache._keys THEN Range(adj_cache._keys[CacheStepKey]) ELSE {}

CacheStepValue ==
  IF CacheStepKey \in DOMAIN adj_cache._cache THEN adj_cache._cache[CacheStepKey]
  ELSE IF last'.arg[4] THEN var_copy(AdjX(last'.ncache)) ELSE AdjX(last'.ncache)

CacheStepStored ==
  /\ \A key \in CacheStepAliases :
       key \in DOMAIN adj_cache'._cache /\ adj_cache'._cache[key] = CacheStepValue
  /\ last'.arg[5] =>
       /\ CacheStepKey \in DOMAIN adj_cache'._cache
       /\ adj_cache'._cache[CacheStepKey] = CacheStepValue

\* C12 as stated: a cache() call for a key with aliases, or with store=True,
\* stores one value object under the aliases and, with store=True, the key.
C12_Original ==
  [][CacheStep /\ (CacheStepAliases # {} \/ last'.arg[5]) => CacheStepStored]_vars

\* C12, amended: a cache() call for a key that initialize() registered as a root
\* slot, with aliases or with store=True, stores one value object under the
\* aliases and, with store=True, the key: the cached value of the key if there
\* is one, adj_X or its copy otherwise.  Any other call leaves the cache as it is.
C12_CacheStores ==
  [][CacheStep =>
       IF CacheStepKey \in DOMAIN adj_cache._keys /\ (CacheStepAliases # {} \/ last'.arg[5])
       THEN CacheStepStored
       ELSE adj_cache' = adj_cache]_vars

\* A call with store=True for a root slot with an alias, whose value was cached:
\* the key and the alias hold the value cached before, not the one handed over.
C12_Witness ==
  /\ last.op = "cache" /\ last.arg[5]
  /\ <<last.arg[1], last.arg[2], last.arg[3]>> \in DOMAIN adj_cache._keys
  /\ adj_cache._keys[<<last.arg[1], last.arg[2], last.arg[3]>>] # <<>>
  /\ \A key \in {<<last.arg[1], last.arg[2], last.arg[3]>>}
                  \cup Range(adj_cache._keys[<<last.arg[1], last.arg[2], last.arg[3]>>]) :
       /\ key \in DOMAIN adj_cache._cache
       /\ adj_cache._cache[key] = var_copy(AdjX(last.ncache - 1))

\* A step of a get(), pop(), remove() or __contains__ call for the key in
\* last'.arg.
AccessStep ==
  /\ last'.op \in {"get", "pop", "remove", "__contains__"}
  /\ last'.ncache = last.ncache + 1

AccessStepKey == <<last'.arg[1], last'.arg[2], last'.arg[3]>>

\* The variables returned are the stored object, or with copy=True an object
\* that is none of the objects in the cache and has the stored value.
ReturnedCopy ==
  IF last'.arg[4]
  THEN /\ \A key \in DOMAIN adj_cache._cache : last'.ret[1] # adj_cache._cache[key]
       /\ last'.ret[1] = var_copy(adj_cache._cache[AccessStepKey])
  ELSE last'.ret[1] = adj_cache._cache[AccessStepKey]

\* C13: get() and __contains__ leave the cache as it is; pop() and remove()
\* delete the key they are given and leave every other key with its value
\* object; with copy=True get() and pop() return an object that is not in the
\* cache.
C13_KeyedAccess ==
  [][AccessStep =>
       /\ last'.op \in {"get", "__contains__"} => adj_cache' = adj_cache
       /\ last'.op = "__contains__" =>
            last'.ret = <<AccessStepKey \in DOMAIN adj_cache._cache>>
       /\ last'.op \in {"pop", "remove"} /\ last'.err = "ok" =>
            /\ DOMAIN adj_cache'._cache = DOMAIN adj_cache._cache \ {AccessStepKey}
            /\ \A key \in DOMAIN adj_cache'._cache :
                 adj_cache'._cache[key] = adj_cache._cache[key]
            /\ adj_cache'._keys = adj_cache._keys
            /\ adj_cache'._cache_key = adj_cache._cache_key
       /\ last'.op \in {"get", "pop"} /\ last'.err = "ok" => ReturnedCopy
       /\ last'.err = "ok" <=> AccessStepKey \in DOMAIN adj_cache._cache \/ last'.op = "__contains__"
       /\ last'.err # "ok" => last'.err = "KeyError" /\ adj_cache' = adj_cache]_vars

\* pop() with copy=True returned a copy of the value of a key; an alias with
\* that value object is still in the cache.
C13_Witness ==
  /\ last.op = "pop" /\ last.err = "ok" /\ last.arg[4]
  /\ <<last.arg[1], last.arg[2], last.arg[3]>> \notin DOMAIN adj_cache._cache
  /\ \E key \in DOMAIN adj_cache._cache :
       /\ last.ret = <<var_copy(adj_cache._cache[key])>>
       /\ key[2] = last.arg[2] /\ key[3] = last.arg[3]

\* In the calls hist, a sub() call with a term that is not None was made to the
\* AdjointRHS key; an initialize(), b() or such a sub() call was made to it.
Contributed(hist, key) ==
  \E a \in DOMAIN hist : hist[a][1] = key /\ hist[a][2] = "sub" /\ Len(hist[a][3]) > 0

Allocated(hist, key) ==
  \/ Contributed(hist, key)
  \/ \E a \in DOMAIN hist : hist[a][1] = key /\ hist[a][2] \in {"initialize", "b"}

OnlySubNone(hist, key) ==
  \A a \in DOMAIN hist : hist[a][1] = key => hist[a][2] = "sub" /\ Len(hist[a][3]) = 0

RhsIdentities == [p \in DOMAIN blocks |-> [k \in DOMAIN blocks[p] |->
                    [m \in DOMAIN blocks[p][k].X |-> <<p, k, m>>]]]

\* The latest equation strictly before pos that produces x, if there is one.
LatestProducers(pos, x) ==
  {q \in AllPositions :
     /\ Before(q, pos)
     /\ Produces(q, x)
     /\ \A q2 \in AllPositions : Before(q, q2) /\ Before(q2, pos) => ~Produces(q2, x)}

OutputIndex(q, x) == CHOOSE m \in DOMAIN EqAt(blocks, q).X : EqAt(blocks, q).X[m] = x

\* What adj_Bs(J_i, n, i, eq, RhsIdentities) returns for the equation at pos.
DepBs(J_i, pos) == adj_Bs(tcg, J_i, pos[1], pos[2], EqAt(blocks, pos), RhsIdentities)

\* C16: adj_Bs(J_i,n,i,eq,B) has as keys exactly the dependency slots j of
\* (n,i) that have a transpose edge (their variable is no output of (n,i) and
\* has a latest earlier producer (p,k), the target of the edge) with (p,k)
\* solved for J_i at the time of the call,
\* and maps each of them to B[p][k][m], m the output of (p,k) that is the
\* variable; right after set_not_solved(J_i,p,k) no slot is mapped to a
\* right-hand side of (p,k) for J_i.
C16_AdjBs ==
  Built =>
    \A J_i \in DOMAIN args.Js : \A pos \in AllPositions :
      LET eq == EqAt(blocks, pos)
          r == DepBs(J_i, pos)
      IN  /\ DOMAIN r = {j \in DOMAIN eq.deps :
                           /\ ~Produces(pos, eq.deps[j])
                           /\ \E q \in LatestProducers(pos, eq.deps[j]) :
                                is_solved(tcg, J_i, q[1], q[2])}
          /\ \A j \in DOMAIN r :
               \E q \in LatestProducers(pos, eq.deps[j]) :
                 r[j] = <<q[1], q[2], OutputIndex(q, eq.deps[j])>>
          /\ (last.op = "set_not_solved" /\ last.arg[1] = J_i) =>
               \A j \in DOMAIN r : <<r[j][1], r[j][2]>> # <<last.arg[2], last.arg[3]>>

\* set_not_solved() was called for an equation that was solved: an equation
\* reading it has lost the slot, another equation keeps a slot for the same
\* functional.
C16_Witness ==
  /\ Built
  /\ last.op = "set_not_solved"
  /\ <<last.arg[2], last.arg[3]>> \in tcg.active[last.arg[1]]
  /\ \E pos \in AllPositions :
       /\ \E j \in DOMAIN EqAt(blocks, pos).deps :
            /\ <<pos[1], pos[2], j>> \in DOMAIN tcg.transpose_deps
            /\ EdgeTarget(tcg.transpose_deps, <<pos[1], pos[2], j>>)
                 = <<last.arg[2], last.arg[3]>>
            /\ j \notin DOMAIN DepBs(last.arg[1], pos)
  /\ \E pos \in AllPositions : DOMAIN DepBs(last.arg[1], pos) # {}

Declares(q, x) == x \in EqAt(blocks, q).adj_ic

\* C17: has_adj_ic(J_i,x) is True if and only if the last equation on the tape
\* that produces x declares x an adjoint initial condition dependency and is
\* solved for J_i at the time of the call; it is False for a variable whose
\* last producer does not declare it, whatever earlier producers declared.
C17_HasAdjIc ==
  Built =>
    \A J_i \in DOMAIN args.Js : \A x \in Vars :
      has_adj_ic(tcg, J_i, x)
        <=> \E q \in LastProducers(x) : Declares(q, x) /\ is_solved(tcg, J_i, q[1], q[2])

\* A variable declared by an earlier, solved producer and not by its last
\* producer has no adjoint initial condition; another one has, for the same
\* functional; and a set_not_solved() call has taken one away.
C17_Witness ==
  /\ Built
  /\ \E J_i \in DOMAIN args.Js :
       /\ \E x \in Vars : \E q \in AllPositions \ LastProducers(x) :
            /\ Produces(q, x) /\ Declares(q, x) /\ is_solved(tcg, J_i, q[1], q[2])
            /\ ~has_adj_ic(tcg, J_i, x)
       /\ \E y \in Vars : has_adj_ic(tcg, J_i, y)
  /\ last.op = "set_not_solved"
  /\ \E x \in Vars :
       /\ ~has_adj_ic(tcg, last.arg[1], x)
       /\ <<last.arg[2], last.arg[3]>> \in LastProducers(x)
       /\ Declares(<<last.arg[2], last.arg[3]>>, x)
       /\ <<last.arg[2], last.arg[3]>> \in tcg.active[last.arg[1]]

\* The adjoint space type of x as an output of the equation at q.
AdjTypeOf(q, x) == var_space_type(x, EqAt(blocks, q).adj_X_type[OutputIndex(q, x)])

\* C18: is_stored_adj_ic(J_i,n,i,m) is True if and only if the latest producer
\* (p,k) strictly before (n,i) of the variable of output m of (n,i) declares it
\* an adjoint initial condition dependency, with the same adjoint space type as
\* (n,i) has for it, and (p,k) is solved for J_i at the time of the call; a
\* producer in between that does not declare the variable breaks the link.
C18_IsStoredAdjIc ==
  Built =>
    \A J_i \in DOMAIN args.Js : \A pos \in AllPositions :
      \A m \in DOMAIN EqAt(blocks, pos).X :
        LET x == EqAt(blocks, pos).X[m]
        IN  is_stored_adj_ic(tcg, J_i, pos[1], pos[2], m)
              <=> \E q \in LatestProducers(pos, x) :
                    /\ Declares(q, x)
                    /\ AdjTypeOf(q, x) = AdjTypeOf(pos, x)
                    /\ is_solved(tcg, J_i, q[1], q[2])

\* Three producers of one variable with one adjoint space type, all solved: the
\* first declares it, the second does not; the second has a stored adjoint
\* initial condition, the third has none.
C18_Witness ==
  /\ Built
  /\ \E J_i \in DOMAIN args.Js : \E a, b, c \in AllPositions : \E x \in Vars :
       /\ Before(a, b) /\ Before(b, c)
       /\ Produces(a, x) /\ Produces(b, x) /\ Produces(c, x)
       /\ Declares(a, x) /\ ~Declares(b, x)
       /\ AdjTypeOf(a, x) = AdjTypeOf(b, x) /\ AdjTypeOf(b, x) = AdjTypeOf(c, x)
       /\ is_solved(tcg, J_i, a[1], a[2]) /\ is_solved(tcg, J_i, b[1], b[2])
       /\ is_stored_adj_ic(tcg, J_i, b[1], b[2], 1)
       /\ ~is_stored_adj_ic(tcg, J_i, c[1], c[2], 1)

\* active_forward, as the constructor computes it from the controls.
ForwardActiveSet ==
  IF args.prune_forward
  THEN active_forward_of(args.M, blocks, PruningEdges, TRUE)
  ELSE AllPositions

\* The equations the last producer of the functional with index J_i reads
\* directly.
DirectlyRead(J_i) ==
  {EdgeTarget(tcg.transpose_deps, key) :
     key \in {a \in DOMAIN tcg.transpose_deps :
                EdgeSource(a) \in LastProducers(var_id(args.Js[J_i]))}}

\* C19: with prune_adjoint=True the last producer of a functional J, and every
\* equation from which it is reached along primary transpose edges, is active
\* for J whenever it is forward-active: no forward-active equation on a
\* dependency path to J is pruned.
C19_AdjointComplete ==
  Built /\ args.prune_adjoint =>
    \A J_i \in Functionals : \A pos \in AdjointReachable(J_i) :
      pos \in ForwardActiveSet => is_active(tcg, J_i, pos[1], pos[2])

\* Both prunings: an equation read by the last producer of J is kept, while an
\* equation further up the path that is not forward-active is pruned.
C19_Witness ==
  /\ Built /\ args.prune_adjoint /\ args.prune_forward
  /\ \E J_i \in Functionals :
       /\ \E pos \in DirectlyRead(J_i) :
            pos \in ForwardActiveSet /\ is_active(tcg, J_i, pos[1], pos[2])
       /\ \E pos \in AdjointReachable(J_i) \ DirectlyRead(J_i) :
            /\ pos \notin LastProducers(var_id(args.Js[J_i]))
            /\ pos \notin ForwardActiveSet
            /\ ~is_active(tcg, J_i, pos[1], pos[2])

\* The positions the pop() calls made so far returned, in order.
Popped == last.hist

\* C20: the pop() calls on an AdjointModelRHS return positions of the tape in
\* strictly descending tape order, starting with the last equation of the last
\* block that has one and skipping none, so each equation is returned exactly
\* once; is_empty() is True exactly when as many pops were made as the tape has
\* equations.
C20_PopOrder ==
  adj_rhs.built =>
    /\ \A a \in DOMAIN Popped : Popped[a] \in AllPositions
    /\ \A a \in DOMAIN Popped : \A q \in AllPositions :
         Before(Popped[a], q) => \E b \in 1..(a - 1) : Popped[b] = q
    /\ \A a, b \in DOMAIN Popped : a < b => Before(Popped[b], Popped[a])
    /\ AdjointModelRHS_is_empty(adj_rhs) <=> Len(Popped) = Cardinality(AllPositions)

\* Three pops emptied a mapping of blocks with an empty block between two
\* blocks that have equations.
C20_Witness ==
  /\ adj_rhs.built /\ last.op = "pop" /\ last.err = "ok"
  /\ Len(Popped) = 3 /\ Cardinality(AllPositions) = 3
  /\ AdjointModelRHS_is_empty(adj_rhs)
  /\ Popped[1][1] # Popped[3][1]
  /\ \E n \in DOMAIN blocks : Popped[3][1] < n /\ n < Popped[1][1] /\ blocks[n] = <<>>
  /\ \E a \in {1, 2} : Popped[a][1] = Popped[a + 1][1]

\* An initialize() call has just returned.
Initialized == Built /\ last.op = "initialize" /\ last.err = "ok"

PositionOf(key) == <<key[2], key[3]>>

\* The derivatives (root functional id, derivative-chain key) the adjoint
\* variable key stores, for the cache degree of the latest initialize() call.
DerivativesOf(key) ==
  LET pairs == tlm_adj_get(J_tangent_linears(args.Js, blocks, last.arg[1]),
                           EqAt(blocks, PositionOf(key)).tlm_key)
  IN  {<<args.Js[pairs[a][1]].tlm_root_id, pairs[a][2]>> :
         a \in {b \in DOMAIN pairs : pairs[b][1] = key[1]}}

\* The entries initialize() collected: the adjoint variables that store a
\* derivative and were solved or cached.
CollectedKeys ==
  {key \in {<<J_i, pos[1], pos[2]>> : J_i \in Functionals, pos \in AllPositions} :
     /\ ~isMarker(EqAt(blocks, PositionOf(key)))
     /\ DerivativesOf(key) # {}
     /\ is_solved(tcg, key[1], key[2], key[3]) \/ key \in KeysNotSolved(adj_cache)}

\* The occurrence of its root equation an entry is collected for: the latest
\* equation at or before its position whose id is the root id of its equation.
RootOccurrences(key) ==
  {q \in AllPositions :
     /\ ~Before(PositionOf(key), q)
     /\ EqAt(blocks, q).id = EqAt(blocks, PositionOf(key)).tlm_root_id
     /\ \A q2 \in AllPositions :
          Before(q, q2) /\ ~Before(PositionOf(key), q2)
            => EqAt(blocks, q2).id # EqAt(blocks, PositionOf(key)).tlm_root_id}

\* C21: after initialize(), every collected entry is a root cache slot or an
\* alias of one; an alias is collected for the same occurrence of the root
\* equation as its root slot, stores the same derivative and lies at a tape
\* position not later than the root slot; two root slots of one occurrence
\* store different derivatives, so the root slot is the entry a reverse sweep
\* meets first.
C21_RootFirst ==
  Initialized =>
    /\ CollectedKeys = DOMAIN adj_cache._keys \cup AliasKeys
    /\ \A root \in DOMAIN adj_cache._keys : \A alias \in Range(adj_cache._keys[root]) :
         /\ ~Before(PositionOf(root), PositionOf(alias))
         /\ RootOccurrences(alias) = RootOccurrences(root)
         /\ DerivativesOf(alias) \cap DerivativesOf(root) # {}
         /\ alias \notin DOMAIN adj_cache._keys
    /\ \A r1 \in DOMAIN adj_cache._keys : \A r2 \in DOMAIN adj_cache._keys :
         r1 # r2 /\ RootOccurrences(r1) = RootOccurrences(r2)
           => DerivativesOf(r1) \cap DerivativesOf(r2) = {}

\* A root slot at the tangent-linear equation with an alias at the forward
\* equation before it, next to a root slot without an alias.
C21_Witness ==
  /\ Initialized
  /\ \E root \in DOMAIN adj_cache._keys : \E alias \in Range(adj_cache._keys[root]) :
       Before(PositionOf(alias), PositionOf(root))
  /\ \E root \in DOMAIN adj_cache._keys : adj_cache._keys[root] = <<>>

\* A dependency slot of the equation at pos has an edge, primary or of an
\* adjoint initial condition, to a forward-active equation.
ReadsForwardActive(pos) ==
  \E j \in DOMAIN EqAt(blocks, pos).deps :
    /\ <<pos[1], pos[2], j>> \in DOMAIN PruningEdges
    /\ EdgeTarget(PruningEdges, <<pos[1], pos[2], j>>) \in ForwardActiveSet

\* The producers of the control x after the first one.
LaterProducers(x) == {pos \in AllPositions : Produces(pos, x)} \ FirstProducers(x)

\* C22 as stated: with prune_forward=True a later producer of a control is
\* forward-active only if it is an Instruction or reads a forward-active
\* equation.
C22_Original ==
  Built /\ args.prune_forward =>
    \A x \in args.M : \A pos \in LaterProducers(x) :
      pos \in ForwardActiveSet => ~NotInstruction(pos) \/ ReadsForwardActive(pos)

\* C22, amended: with prune_forward=True the first producer of a control is
\* forward-active, and a later producer of the control is forward-active only
\* if it is an Instruction, or reads a forward-active equation, or is the first
\* producer of another control.
C22_ControlConsumed ==
  Built /\ args.prune_forward =>
    \A x \in args.M :
      /\ FirstProducers(x) \subseteq ForwardActiveSet
      /\ \A pos \in LaterProducers(x) :
           pos \in ForwardActiveSet =>
             \/ ~NotInstruction(pos)
             \/ ReadsForwardActive(pos)
             \/ \E y \in args.M : pos \in FirstProducers(y)

\* A later producer of a control that reads nothing forward-active is not
\* forward-active, while its first producer is; on another tape position a
\* later producer of one control is the first producer of another.
C22_Witness ==
  /\ Built /\ args.prune_forward
  /\ \E x \in args.M : \E pos \in LaterProducers(x) :
       /\ NotInstruction(pos) /\ ~ReadsForwardActive(pos)
       /\ pos \notin ForwardActiveSet
       /\ ~is_active(tcg, 1, pos[1], pos[2])
  /\ \E x \in args.M : \E pos \in LaterProducers(x) :
       /\ \E y \in args.M : pos \in FirstProducers(y)
       /\ ~ReadsForwardActive(pos)
       /\ pos \in ForwardActiveSet

\* The equations that read, directly or transitively along primary transpose
\* edges, an output of the first producer of a control.
ReadsControl ==
  DownstreamClosure(tcg.transpose_deps, UNION {FirstProducers(x) : x \in args.M})

\* C25: with prune_forward=True an equation with a primary transpose edge from
\* one of its dependency slots to a forward-active equation is forward-active;
\* with prune_adjoint=False besides, every equation that reads, directly or
\* transitively, an output of the first producer of a control is active for
\* every functional.
C25_ForwardClosed ==
  Built /\ args.prune_forward =>
    /\ \A key \in DOMAIN tcg.transpose_deps :
         EdgeTarget(tcg.transpose_deps, key) \in ForwardActiveSet
           => EdgeSource(key) \in ForwardActiveSet
    /\ ~args.prune_adjoint =>
         \A J_i \in Functionals : \A pos \in ReadsControl :
           is_active(tcg, J_i, pos[1], pos[2])

\* Forward pruning alone: an equation two edges downstream of the first producer
\* of a control, which is not the first producer of a control itself, is
\* active.
C25_Witness ==
  /\ Built /\ args.prune_forward /\ ~args.prune_adjoint
  /\ \E a, b, c \in AllPositions :
       /\ a \in UNION {FirstProducers(x) : x \in args.M}
       /\ \E key \in DOMAIN tcg.transpose_deps :
            EdgeSource(key) = b /\ EdgeTarget(tcg.transpose_deps, key) = a
       /\ \E key \in DOMAIN tcg.transpose_deps :
            EdgeSource(key) = c /\ EdgeTarget(tcg.transpose_deps, key) = b
       /\ c \notin UNION {FirstProducers(x) : x \in args.M}
       /\ NotInstruction(c)
       /\ is_active(tcg, 1, c[1], c[2])

\* A collected entry whose root equation occurs nowhere at or before it.
OrphanKeys == {key \in CollectedKeys : RootOccurrences(key) = {}}

\* C23: an initialize() call raises an assertion failure exactly if an equation
\* contributes a solved or cached entry and no equation with the id of its root
\* equation is at its position or earlier on the tape.
C23_RootBeforeDerivative ==
  Built /\ last.op = "initialize" =>
    (last.err = "AssertionError" <=> OrphanKeys # {})

\* initialize() failed for a tape with the tangent-linear equation before its
\* root equation.
C23_Witness ==
  /\ Built /\ last.op = "initialize" /\ last.err = "AssertionError"
  /\ \E key \in OrphanKeys : \E q \in AllPositions :
       /\ Before(PositionOf(key), q)
       /\ EqAt(blocks, q).id = EqAt(blocks, PositionOf(key)).tlm_root_id

\* The root cache slot and the aliases of a sharing group.
GroupOf(root) == {root} \cup Range(adj_cache._keys[root])

SolvedKey(key) == is_solved(tcg, key[1], key[2], key[3])

\* C24: after initialize(), every key whose solved flag the call cleared is in
\* the cache or is an alias of a root cache slot that is solved or in the cache;
\* a root cache slot with aliases that is not in the cache is solved, and when
\* no member of its group is in the cache it is the one solved member.
C24_NoValueLost ==
  Initialized =>
    /\ \A key \in KeysNotSolved(adj_cache) :
         \/ Contains(adj_cache, key)
         \/ \E root \in DOMAIN adj_cache._keys :
              /\ key \in Range(adj_cache._keys[root])
              /\ SolvedKey(root) \/ Contains(adj_cache, root)
    /\ \A root \in DOMAIN adj_cache._keys :
         adj_cache._keys[root] # <<>> /\ ~Contains(adj_cache, root) =>
           /\ SolvedKey(root)
           /\ (\A key \in GroupOf(root) : ~Contains(adj_cache, key))
                => {key \in GroupOf(root) : SolvedKey(key)} = {root}

\* A group with nothing cached after a second initialize() call, made for a
\* graph built anew: the root slot at the tangent-linear equation is the one
\* solved member, its alias at the forward equation is not solved.
C24_Witness ==
  /\ Initialized /\ last.ninit = 2
  /\ \E root \in DOMAIN adj_cache._keys :
       /\ \E alias \in Range(adj_cache._keys[root]) :
            Before(PositionOf(alias), PositionOf(root))
       /\ \A key \in GroupOf(root) : ~Contains(adj_cache, key)
       /\ {key \in GroupOf(root) : SolvedKey(key)} = {root}

\* A step that is a set_not_solved() call on the graph.
NotSolvedStep == tcg.err = "ok" /\ last'.op = "set_not_solved" /\ last'.nset = last.nset + 1

AllKeys == {<<J_i, pos[1], pos[2]>> : J_i \in Functionals, pos \in AllPositions}

\* C26: set_not_solved(J_i,n,i) leaves the solved flag of (J_i,n,i) False and
\* changes nothing else: the active flags, the transpose edges, the records of
\* the adjoint initial conditions and the solved flag of every other key, the
\* same equation under another functional among them, are as before; no solved
\* flag goes from False to True.
C26_SetNotSolvedFrame ==
  [][NotSolvedStep =>
       /\ tcg'.active = tcg.active
       /\ tcg'.transpose_deps = tcg.transpose_deps
       /\ tcg'.stored_adj_ics = tcg.stored_adj_ics
       /\ tcg'.adj_ics = tcg.adj_ics
       /\ ~is_solved(tcg', last'.arg[1], last'.arg[2], last'.arg[3])
       /\ \A key \in AllKeys :
            /\ key # last'.arg =>
                 (is_solved(tcg', key[1], key[2], key[3]) <=> is_solved(tcg, key[1], key[2], key[3]))
            /\ is_solved(tcg', key[1], key[2], key[3]) => is_solved(tcg, key[1], key[2], key[3])
    ]_vars

\* set_not_solved() was called for an equation that was solved for both
\* functionals, on a graph with a stored adjoint initial condition: it is still
\* solved for the other functional.
C26_Witness ==
  /\ Built /\ last.op = "set_not_solved"
  /\ <<last.arg[2], last.arg[3]>> \in tcg.active[last.arg[1]]
  /\ ~is_solved(tcg, last.arg[1], last.arg[2], last.arg[3])
  /\ \E J_j \in Functionals \ {last.arg[1]} : is_solved(tcg, J_j, last.arg[2], last.arg[3])
  /\ \E J_i \in Functionals : DOMAIN tcg.stored_adj_ics[J_i] # {}
  /\ DOMAIN tcg.transpose_deps # {}

\* C27: the source and the target of a transpose edge are different equations,
\* and a dependency slot whose variable is an output of its own equation has no
\* transpose edge, whatever earlier equations produced the variable.
C27_NoSelfEdge ==
  Built =>
    /\ \A key \in DOMAIN tcg.transpose_deps :
         EdgeTarget(tcg.transpose_deps, key) # EdgeSource(key)
    /\ \A pos \in AllPositions : \A j \in DOMAIN EqAt(blocks, pos).deps :
         Produces(pos, EqAt(blocks, pos).deps[j])
           => <<pos[1], pos[2], j>> \notin DOMAIN tcg.transpose_deps

\* An equation reads its own output, which an earlier equation produced too, and
\* has no edge at that slot, while another slot of it has an edge.
C27_Witness ==
  /\ Built
  /\ \E pos \in AllPositions : \E j, j2 \in DOMAIN EqAt(blocks, pos).deps :
       /\ Produces(pos, EqAt(blocks, pos).deps[j])
       /\ LatestProducers(pos, EqAt(blocks, pos).deps[j]) # {}
       /\ <<pos[1], pos[2], j>> \notin DOMAIN tcg.transpose_deps
       /\ <<pos[1], pos[2], j2>> \in DOMAIN tcg.transpose_deps

\* The edges the reverse pass of the adjoint initial conditions adds to the
\* primary transpose edges.
IcEdges == {key \in DOMAIN PruningEdges : key \notin DOMAIN tcg.transpose_deps}

\* The slot of its own output x among the dependencies of the equation at pos.
OwnSlot(pos, x) == <<pos[1], pos[2], dep_map_of(EqAt(blocks, pos))[x]>>

\* C28: with prune_forward=True the construction raises no assertion failure,
\* and the reverse pass adds an edge from the slot of an output x of (n,i) to
\* (p,k) exactly when the forward pass records (p,k) as the stored adjoint
\* initial condition of that output; (p,k) is then the latest producer of x
\* strictly before (n,i), declares x an adjoint initial condition dependency and
\* has the adjoint space type (n,i) has for x.  The reverse pass adds no other
\* edge.
C28_PassesAgree ==
  /\ tcg.err # "AssertionError"
  /\ Built /\ args.prune_forward =>
       /\ \A key \in IcEdges :
            Produces(EdgeSource(key), EqAt(blocks, EdgeSource(key)).deps[key[3]])
       /\ \A J_i \in Functionals : \A pos \in AllPositions :
            \A m \in DOMAIN EqAt(blocks, pos).X :
              LET x == EqAt(blocks, pos).X[m]
                  stored == tcg.stored_adj_ics[J_i]
              IN  /\ OwnSlot(pos, x) \in IcEdges <=> <<pos[1], pos[2], m>> \in DOMAIN stored
                  /\ OwnSlot(pos, x) \in IcEdges =>
                       LET q == EdgeTarget(PruningEdges, OwnSlot(pos, x))
                       IN  /\ q = stored[<<pos[1], pos[2], m>>]
                           /\ EqAt(blocks, q).X[PruningEdges[OwnSlot(pos, x)][3]] = x
                           /\ q \in LatestProducers(pos, x)
                           /\ Declares(q, x)
                           /\ AdjTypeOf(q, x) = AdjTypeOf(pos, x)
                           /\ Before(q, pos)

\* Forward pruning on a tape where one producer has an edge to, and a stored
\* adjoint initial condition from, the producer before it, and another has
\* neither because the adjoint space types differ.
C28_Witness ==
  /\ Built /\ args.prune_forward
  /\ \E pos \in AllPositions :
       /\ OwnSlot(pos, EqAt(blocks, pos).X[1]) \in IcEdges
       /\ <<pos[1], pos[2], 1>> \in DOMAIN tcg.stored_adj_ics[1]
  /\ \E pos \in AllPositions : \E q \in LatestProducers(pos, EqAt(blocks, pos).X[1]) :
       /\ Declares(q, EqAt(blocks, pos).X[1])
       /\ AdjTypeOf(q, EqAt(blocks, pos).X[1]) # AdjTypeOf(pos, EqAt(blocks, pos).X[1])
       /\ OwnSlot(pos, EqAt(blocks, pos).X[1]) \notin IcEdges
       /\ <<pos[1], pos[2], 1>> \notin DOMAIN tcg.stored_adj_ics[1]

Constructed == tcg.err # "none"

\* The equations with an output that is none of their dependencies.
OutputNotRead ==
  {pos \in AllPositions : ~(Range(EqAt(blocks, pos).X) \subseteq Range(EqAt(blocks, pos).deps))}

\* C29: the construction with prune_forward=True completes exactly if every
\* equation of the tape lists each of its outputs among its dependencies, and
\* raises KeyError otherwise; the construction with prune_forward=False
\* completes for every tape.
C29_OutputLookup ==
  Constructed =>
    /\ args.prune_forward => (tcg.err = "ok" <=> OutputNotRead = {})
    /\ args.prune_forward /\ OutputNotRead # {} => tcg.err = "KeyError"
    /\ ~args.prune_forward => tcg.err = "ok"

\* The construction with forward pruning failed for a tape whose first equation
\* does not read its output and whose last equation does.
C29_Witness ==
  /\ Constructed /\ args.prune_forward /\ tcg.err = "KeyError"
  /\ \E a \in OutputNotRead : \E b \in AllPositions \ OutputNotRead :
       Before(a, b) /\ NotInstruction(b)

\* A step that is a pop() call on the right-hand sides.
PopStep == adj_rhs.built /\ last'.op = "pop"

\* C30: a pop() call made while is_empty() is False returns an equation of the
\* last block left; a pop() call made while is_empty() is True raises
\* IndexError and leaves the structure as it is.
C30_PopOrError ==
  [][PopStep =>
       /\ ~AdjointModelRHS_is_empty(adj_rhs) =>
            /\ last'.err = "ok"
            /\ last'.arg[1] = adj_rhs._blocks_n[Len(adj_rhs._blocks_n)]
            /\ last'.arg[2] \in DOMAIN adj_rhs._B[last'.arg[1]]
       /\ AdjointModelRHS_is_empty(adj_rhs) =>
            /\ last'.err = "IndexError"
            /\ adj_rhs' = adj_rhs
    ]_vars

\* A pop() call failed on right-hand sides that two earlier calls had emptied;
\* the tape is a mapping that ends with an empty block.
C30_Witness ==
  /\ adj_rhs.built /\ last.op = "pop" /\ last.err = "IndexError"
  /\ AdjointModelRHS_is_empty(adj_rhs)
  /\ Len(Popped) = 2
  /\ \E n \in DOMAIN blocks : blocks[n] = <<>> /\ \A p \in DOMAIN blocks : p <= n

====
